---- MODULE Spec2Model ----
(***************************************************************************)
(* A model of mom6_tools: the meridional overturning streamfunction        *)
(* (moc.py: MOCpsi, findExtrema) and the horizontal statistics reducers    *)
(* (stats.py).  The functions are pure, so the state is a call frame: the  *)
(* arguments of the call (args), the point the call has reached (pc), the  *)
(* local variables of the callee when it ended (loc) and what it returned  *)
(* or raised (ret); and the current matplotlib figure (fig), the one piece *)
(* of global state a call draws on, and the reductions the call has        *)
(* carried out and the lines it has printed (log).                         *)
(*                                                                         *)
(* A numpy array is a record [shape, data]: shape is the tuple of axis     *)
(* lengths and data maps every 0-based index tuple of that shape to the    *)
(* element.  The arithmetic is exact: the elements of moc.py's arrays are   *)
(* integers, those of stats.py's arrays are fractions (see below).         *)
(***************************************************************************)
EXTENDS Integers, Sequences, FiniteSets, TLC

VARIABLES pc, args, loc, ret, fig, log

vars == <<pc, args, loc, ret, fig, log>>

(***************************************************************************)
(* Bounds of the model.                                                    *)
(***************************************************************************)
\* transport and streamfunction values are drawn from -MaxVal..MaxVal
MaxVal == 1
\* a transport that is enumerated cell by cell has at most MaxCells cells
MaxCells == 4
\* axis lengths of a transport: ensemble members, layers, latitudes, longitudes
MaxMembers == 2
MaxLayers == 3
MaxLat == 2
MaxLon == 2

Vals == (0 - MaxVal)..MaxVal
MaskVals == 0..MaxVal

(***************************************************************************)
(* numpy arrays.                                                           *)
(***************************************************************************)
\* Python's None
None == [none |-> TRUE]

RECURSIVE Indices(_)
\* every index tuple of an array of this shape (numpy.ndindex)
Indices(shape) ==
  IF shape = <<>> THEN {<<>>}
  ELSE {<<h>> \o t : h \in 0..(shape[1] - 1), t \in Indices(Tail(shape))}

RECURSIVE Size(_)
\* the number of elements of an array of this shape
Size(shape) == IF shape = <<>> THEN 1 ELSE shape[1] * Size(Tail(shape))

\* every array of this shape with elements in V
Arrays(shape, V) == {[shape |-> shape, data |-> d] : d \in [Indices(shape) -> V]}

\* numpy.zeros(shape)
zeros(shape) == [shape |-> shape, data |-> [ix \in Indices(shape) |-> 0]]

\* a[p]: the sub-array at the leading indices p
Slice(a, p) ==
  LET rest == SubSeq(a.shape, Len(p) + 1, Len(a.shape))
  IN [shape |-> rest, data |-> [ix \in Indices(rest) |-> a.data[p \o ix]]]

\* a[p] = b, in place: the elements under the leading indices p are b's
SetSlice(a, p, b) ==
  [shape |-> a.shape,
   data |-> [ix \in Indices(a.shape) |->
               IF SubSeq(ix, 1, Len(p)) = p
               THEN b.data[SubSeq(ix, Len(p) + 1, Len(ix))]
               ELSE a.data[ix]]]

\* a * b, element by element (both of one shape)
Mul(a, b) == [shape |-> b.shape, data |-> [ix \in Indices(b.shape) |-> a.data[ix] * b.data[ix]]]

\* a - b, element by element (both of one shape)
Sub(a, b) == [shape |-> a.shape, data |-> [ix \in Indices(a.shape) |-> a.data[ix] - b.data[ix]]]

RECURSIVE SumTo(_, _, _)
\* a[p, 0] + ... + a[p, n-1]
SumTo(a, p, n) == IF n = 0 THEN 0 ELSE SumTo(a, p, n - 1) + a.data[p \o <<n - 1>>]

\* a.sum(axis=-1)
SumLastAxis(a) ==
  LET rest == SubSeq(a.shape, 1, Len(a.shape) - 1)
  IN [shape |-> rest,
      data |-> [ix \in Indices(rest) |-> SumTo(a, ix, a.shape[Len(a.shape)])]]

(***************************************************************************)
(* moc.py: MOCpsi                                                          *)
(***************************************************************************)
\* the bug of allocating one interface per layer: shape[-3] is left as it is
PsiShape_noExtraInterface(vh) == vh.shape

\* shape = list(vh.shape); shape[-3] += 1
PsiShape(vh) == [vh.shape EXCEPT ![Len(vh.shape) - 2] = @ + 1]

\* the bug of summing the transport without its mask
ZonalSum_unmasked(vh, vmsk, p) == SumLastAxis(Slice(vh, p))

\* vh[p].sum(axis=-1), or (vmsk*vh[p]).sum(axis=-1) when a mask is given
ZonalSum(vh, vmsk, p) ==
  IF vmsk = None THEN SumLastAxis(Slice(vh, p))
  ELSE SumLastAxis(Mul(vmsk, Slice(vh, p)))

\* the bug of adding the zonal sum to the interface below
ScanStep_adds(psi, vh, vmsk, n, k) ==
  SetSlice(psi, n \o <<k - 1>>,
           Sub(Slice(psi, n \o <<k>>), Sub(zeros(<<psi.shape[Len(psi.shape)]>>), ZonalSum(vh, vmsk, n \o <<k - 1>>))))

\* the bug of not accumulating: each interface is computed from itself
ScanStep_fromItself(psi, vh, vmsk, n, k) ==
  SetSlice(psi, n \o <<k - 1>>, Sub(Slice(psi, n \o <<k - 1>>), ZonalSum(vh, vmsk, n \o <<k - 1>>)))

\* one pass of the loop body: psi[n,k-1,:] = psi[n,k,:] - zonal sum of layer k-1
\* (n is <<>> for a rank-3 transport and <<member>> for a rank-4 one)
ScanStep(psi, vh, vmsk, n, k) ==
  SetSlice(psi, n \o <<k - 1>>, Sub(Slice(psi, n \o <<k>>), ZonalSum(vh, vmsk, n \o <<k - 1>>)))

RECURSIVE ScanLayers(_, _, _, _, _)
\* for k in range(k, 0, -1): the loop body
ScanLayers(psi, vh, vmsk, n, k) ==
  IF k <= 0 THEN psi
  ELSE ScanLayers(ScanStep(psi, vh, vmsk, n, k), vh, vmsk, n, k - 1)

RECURSIVE ScanMembers(_, _, _, _, _)
\* for n in range(n, shape[0]): the scan of member n
ScanMembers(psi, vh, vmsk, shape, n) ==
  IF n >= shape[1] THEN psi
  ELSE ScanMembers(ScanLayers(psi, vh, vmsk, <<n>>, shape[Len(shape) - 2] - 1),
                   vh, vmsk, shape, n + 1)

\* the bug of starting the scan one layer above the deepest one
MOCpsi_skipsDeepestLayer(vh, vmsk) ==
  LET shape == PsiShape(vh)
      psi == zeros(SubSeq(shape, 1, Len(shape) - 1))
  IN IF Len(shape) = 3
     THEN ScanLayers(psi, vh, vmsk, <<>>, shape[Len(shape) - 2] - 2)
     ELSE ScanMembers(psi, vh, vmsk, shape, 0)

MOCpsi(vh, vmsk) ==
  LET shape == PsiShape(vh)
      psi == zeros(SubSeq(shape, 1, Len(shape) - 1))
  IN IF Len(shape) = 3
     THEN ScanLayers(psi, vh, vmsk, <<>>, shape[Len(shape) - 2] - 1)
     ELSE ScanMembers(psi, vh, vmsk, shape, 0)

(***************************************************************************)
(* The calls of MOCpsi.                                                    *)
(***************************************************************************)
\* the shapes of a transport: [layer, y, x] or [member, layer, y, x]
Shapes3 == {<<nk, ny, nx>> : nk \in 1..MaxLayers, ny \in 1..MaxLat, nx \in 1..MaxLon}
Shapes4 == {<<ne>> \o s : ne \in 1..MaxMembers, s \in Shapes3}
TransportShapes == Shapes3 \cup Shapes4

\* the horizontal slice [y, x] of a transport of this shape
Horizontal(shape) == SubSeq(shape, Len(shape) - 1, Len(shape))

\* the masks a call may pass with a transport of this shape
Masks(shape) == {None} \cup Arrays(Horizontal(shape), MaskVals)

\* any transport of at most MaxCells cells, with any mask or none
InitMOC ==
  /\ pc = "call"
  /\ \E shape \in {s \in TransportShapes : Size(s) <= MaxCells} :
       \E vh \in Arrays(shape, Vals), vmsk \in Masks(shape) :
         args = [vh |-> vh, vmsk |-> vmsk]
  /\ loc = None
  /\ ret = None
  /\ fig = <<>>
  /\ log = <<>>

\* a transport of any shape whose every cell holds one value, without a mask
InitMOCUniform ==
  /\ pc = "call"
  /\ \E shape \in TransportShapes, c \in Vals :
       args = [vh |-> [shape |-> shape, data |-> [ix \in Indices(shape) |-> c]],
               vmsk |-> None]
  /\ loc = None
  /\ ret = None
  /\ fig = <<>>
  /\ log = <<>>

\* the bug of masking the transport where it is held: vh[k-1] *= vmsk
CallMOCpsi_masksInPlace ==
  /\ pc = "call" /\ "vh" \in DOMAIN args
  /\ ret' = MOCpsi(args.vh, args.vmsk)
  /\ pc' = "done"
  /\ args' = IF args.vmsk = None THEN args
             ELSE [args EXCEPT !.vh.data =
                     [ix \in Indices(args.vh.shape) |->
                        args.vmsk.data[Horizontal(ix)] * args.vh.data[ix]]]
  /\ UNCHANGED <<loc, fig, log>>

\* psi = MOCpsi(vh, vmsk)
CallMOCpsi ==
  /\ pc = "call" /\ "vh" \in DOMAIN args
  /\ ret' = MOCpsi(args.vh, args.vmsk)
  /\ pc' = "done"
  /\ UNCHANGED <<args, loc, fig, log>>

NextMOC == CallMOCpsi

SpecMOC == InitMOC /\ [][NextMOC]_vars

SpecMOCUniform == InitMOCUniform /\ [][NextMOC]_vars

(***************************************************************************)
(* What the claims about MOCpsi speak of: the call's transport, its mask   *)
(* and the streamfunction it returned.                                     *)
(***************************************************************************)
MocDone == pc = "done"
Rank == Len(args.vh.shape)
NK == args.vh.shape[Rank - 2]
NY == args.vh.shape[Rank - 1]
NX == args.vh.shape[Rank]
\* the leading indices of the scans: none for rank 3, the member for rank 4
Members == IF Rank = 3 THEN {<<>>} ELSE {<<n>> : n \in 0..(args.vh.shape[1] - 1)}
\* the mask's value at (j, i): all ones when the mask is omitted
MaskAt(vmsk, j, i) == IF vmsk = None THEN 1 ELSE vmsk.data[<<j, i>>]

RECURSIVE MaskedRowSum(_, _, _, _, _, _)
\* sum over the first n columns i of vmsk[j,i] * vh[p,k,j,i]
MaskedRowSum(vh, vmsk, p, k, j, n) ==
  IF n = 0 THEN 0
  ELSE MaskedRowSum(vh, vmsk, p, k, j, n - 1)
       + MaskAt(vmsk, j, n - 1) * vh.data[p \o <<k, j, n - 1>>]

\* the zonal sum of the masked transport of the call at member p, layer k, latitude j
RowSum(p, k, j) == MaskedRowSum(args.vh, args.vmsk, p, k, j, NX)

\* C1: the bottom interface of the streamfunction is zero at every latitude of
\* every member, and each interface above it is the interface below minus the
\* zonal sum of the masked transport of the layer between them (of that member).
C1_BottomZeroAndRecurrence ==
  MocDone =>
    \A p \in Members, j \in 0..(NY - 1) :
      /\ ret.data[p \o <<NK, j>>] = 0
      /\ \A k \in 1..NK :
           ret.data[p \o <<k - 1, j>>] = ret.data[p \o <<k, j>>] - RowSum(p, k - 1, j)

\* a rank-4 call with a mask that hides a cell, whose second member's
\* streamfunction is not zero at the top
C1_Witness ==
  /\ MocDone
  /\ Rank = 4
  /\ args.vh.shape[1] = 2
  /\ args.vmsk # None
  /\ \E j \in 0..(NY - 1), i \in 0..(NX - 1) : args.vmsk.data[<<j, i>>] = 0
  /\ \E j \in 0..(NY - 1) : ret.data[<<1, 0, j>>] # 0

\* the shape the transport would have with one more layer
WithInterfaces(shape) == [shape EXCEPT ![Len(shape) - 2] = @ + 1]

\* C2 as stated: the streamfunction has the rank of the transport, every axis
\* as long as the transport's but the depth axis, which is one longer.
C2_SameRank ==
  MocDone => ret.shape = WithInterfaces(args.vh.shape)

\* C2: the streamfunction has one axis fewer than the transport: the zonal
\* (last) axis is summed away, the depth axis is one longer and every other
\* axis is as long as the transport's; it holds one value per index of that shape.
C2_ZonalAxisDropped ==
  MocDone =>
    /\ ret.shape = SubSeq(WithInterfaces(args.vh.shape), 1, Rank - 1)
    /\ Len(ret.shape) = Rank - 1
    /\ DOMAIN ret.data = Indices(ret.shape)

\* a transport of shape [2,1,2] gave a streamfunction of shape [3,1]
C2_Witness ==
  /\ MocDone
  /\ args.vh.shape = <<2, 1, 2>>
  /\ ret.shape = <<3, 1>>

\* a sequence back to front
Reverse(s) == [n \in 1..Len(s) |-> s[Len(s) + 1 - n]]

RECURSIVE CumSum(_)
\* the forward cumulative sum of a sequence (numpy.cumsum)
CumSum(s) ==
  IF s = <<>> THEN <<>>
  ELSE LET front == CumSum(SubSeq(s, 1, Len(s) - 1))
       IN Append(front, (IF front = <<>> THEN 0 ELSE front[Len(front)]) + s[Len(s)])

\* the reference streamfunction column at member p, latitude j: the negated
\* zonal sums of the layers, reversed, summed cumulatively, reversed back, with
\* a zero bottom interface appended
ReferenceColumn(p, j) ==
  Append(Reverse(CumSum(Reverse([k \in 1..NK |-> 0 - RowSum(p, k - 1, j)]))), 0)

\* C3: the layer-by-layer scan gives, in every column, what the reverse
\* cumulative sum of the negated masked zonal sums gives.
C3_ScanIsReverseCumSum ==
  MocDone =>
    \A p \in Members, j \in 0..(NY - 1) :
      [k \in 1..(NK + 1) |-> ret.data[p \o <<k - 1, j>>]] = ReferenceColumn(p, j)

\* two layers whose zonal sums differ, so that the order of accumulation shows
C3_Witness ==
  /\ MocDone
  /\ Rank = 3
  /\ NK = 2
  /\ RowSum(<<>>, 0, 0) = 1
  /\ RowSum(<<>>, 1, 0) = 0 - 2
  /\ ret.data[<<0, 0>>] = 1
  /\ ret.data[<<1, 0>>] = 2

\* the transport of the call holds one value in every cell
Uniform(c) == \A ix \in Indices(args.vh.shape) : args.vh.data[ix] = c

\* C4: a transport that is c in every cell, without a mask, gives -c*nx*(nk-k)
\* at interface k of every latitude; three layers of 1 over two columns give
\* 0, -2, -4, -6 from the bottom up, and a zero transport gives zero everywhere.
C4_UniformTransport ==
  MocDone =>
    \A c \in Vals :
      (Uniform(c) /\ args.vmsk = None) =>
        /\ \A p \in Members, j \in 0..(NY - 1), k \in 0..NK :
             ret.data[p \o <<k, j>>] = 0 - c * NX * (NK - k)
        /\ (c = 1 /\ NK = 3 /\ NX = 2) =>
             \A p \in Members, j \in 0..(NY - 1) :
               <<ret.data[p \o <<3, j>>], ret.data[p \o <<2, j>>],
                 ret.data[p \o <<1, j>>], ret.data[p \o <<0, j>>]>> = <<0, 0 - 2, 0 - 4, 0 - 6>>
        /\ (c = 0) => \A ix \in Indices(ret.shape) : ret.data[ix] = 0

\* three layers of 1 over two columns and two latitudes: -6 at the top
C4_Witness ==
  /\ MocDone
  /\ args.vh.shape = <<3, 2, 2>>
  /\ Uniform(1)
  /\ ret.data[<<0, 1>>] = 0 - 6
  /\ ret.data[<<3, 1>>] = 0

\* the mask of the call is given and holds only 0 and 1
BinaryMask == args.vmsk # None /\ \A ix \in Indices(args.vmsk.shape) : args.vmsk.data[ix] \in {0, 1}

\* the call's transport with every cell where the mask is 0 set to v: what
\* the transport holds at the cells where the mask is 1, and nothing else
Hidden(v) ==
  [shape |-> args.vh.shape,
   data |-> [ix \in Indices(args.vh.shape) |->
               IF args.vmsk.data[SubSeq(ix, Rank - 1, Rank)] = 0 THEN v ELSE args.vh.data[ix]]]

\* C5: with a 0/1 mask the streamfunction is the one of the transport with
\* the cells where the mask is 0 overwritten by any one value, so two transports
\* that agree on the cells where the mask is 1 (they are the same once so
\* overwritten) give the same streamfunction; a mask of all ones gives what no
\* mask gives; a mask of all zeros gives zero everywhere.
C5_MaskedCellsDoNotMatter ==
  (MocDone /\ BinaryMask) =>
    /\ \A v \in Vals : MOCpsi(Hidden(v), args.vmsk) = ret
    /\ (\A ix \in Indices(args.vmsk.shape) : args.vmsk.data[ix] = 1) =>
         ret = MOCpsi(args.vh, None)
    /\ (\A ix \in Indices(args.vmsk.shape) : args.vmsk.data[ix] = 0) =>
         \A ix \in Indices(ret.shape) : ret.data[ix] = 0

\* a mask that hides a cell holding a nonzero transport and shows another one
C5_Witness ==
  /\ MocDone
  /\ BinaryMask
  /\ \E ix \in Indices(args.vh.shape) :
       /\ args.vmsk.data[SubSeq(ix, Rank - 1, Rank)] = 0
       /\ args.vh.data[ix] # 0
  /\ \E ix \in Indices(ret.shape) : ret.data[ix] # 0

(***************************************************************************)
(* moc.py: findExtrema                                                     *)
(***************************************************************************)
\* raise ValueError(...), and return v
Raise(e) == [raised |-> e]
Return(v) == [value |-> v]

\* numpy.unravel_index(idx, shape) of a 2-D shape: row-major (C) order
unravel_index(idx, shape) == <<idx \div shape[2], idx % shape[2]>>

\* the elements of a 2-D array in row-major order (a.ravel())
Ravel(a) == [n \in 1..Size(a.shape) |-> a.data[unravel_index(n - 1, a.shape)]]

RECURSIVE Compress(_, _, _)
\* the first n elements of f whose condition in c holds, in order
Compress(f, c, n) ==
  IF n = 0 THEN <<>>
  ELSE IF c[n] THEN Append(Compress(f, c, n - 1), f[n]) ELSE Compress(f, c, n - 1)

\* a[cond]: boolean indexing, the selected elements as a 1-D array in row-major order
BoolIndex(a, cond) == Compress(Ravel(a), Ravel(cond), Size(a.shape))

\* what numpy.amax raises on an array without elements
ZeroSize == "ValueError: zero-size array to reduction operation maximum which has no identity"

\* mult * a, element by element
Scale(mult, a) == [shape |-> a.shape, data |-> [ix \in Indices(a.shape) |-> mult * a.data[ix]]]

Abs(x) == IF x < 0 THEN 0 - x ELSE x

\* numpy.amax of a non-empty 1-D array
amax(s) == CHOOSE m \in {s[n] : n \in 1..Len(s)} : \A n \in 1..Len(s) : s[n] <= m

RECURSIVE ArgminTo(_, _)
\* the 0-based position of the first smallest element among the first n of s
ArgminTo(s, n) ==
  IF n = 1 THEN 0
  ELSE LET best == ArgminTo(s, n - 1)
       IN IF s[n] < s[best + 1] THEN n - 1 ELSE best

\* numpy.argmin of a non-empty array: over the flattened array, first occurrence
argmin(a) == ArgminTo(Ravel(a), Size(a.shape))

\* the bug of a depth test with the sign of min_depth lost
InWindow_depthSignLost(y, z, min_lat, max_lat, min_depth) ==
  [shape |-> y.shape,
   data |-> [ix \in Indices(y.shape) |->
               y.data[ix] >= min_lat /\ y.data[ix] <= max_lat /\ z.data[ix] < min_depth]]

\* (y>=min_lat) & (y<=max_lat) & (z<-min_depth)
InWindow(y, z, min_lat, max_lat, min_depth) ==
  [shape |-> y.shape,
   data |-> [ix \in Indices(y.shape) |->
               y.data[ix] >= min_lat /\ y.data[ix] <= max_lat /\ z.data[ix] < 0 - min_depth]]

\* the bug of taking the maximum of an empty window to be 0 (amax with initial=0)
WindowExtremum_emptyIsZero(psi, cond, mult) ==
  LET inside == BoolIndex(Scale(mult, psi), cond)
  IN IF inside = <<>> THEN Return(0) ELSE Return(mult * amax(inside))

\* the bug of not undoing the sign: amax(mult * psi[window])
WindowExtremum_signNotUndone(psi, cond, mult) ==
  LET inside == BoolIndex(Scale(mult, psi), cond)
  IN IF inside = <<>>
     THEN Raise(ZeroSize)
     ELSE Return(amax(inside))

\* psiMax = mult*numpy.amax( mult * numpy.ma.array(psi)[window] ): numpy.amax
\* raises on an array without elements
WindowExtremum(psi, cond, mult) ==
  LET inside == BoolIndex(Scale(mult, psi), cond)
  IN IF inside = <<>>
     THEN Raise(ZeroSize)
     ELSE Return(mult * amax(inside))

\* the bug of locating the last cell that is closest to psiMax
Locate_last(psi, psiMax) ==
  LET dist == [shape |-> psi.shape,
               data |-> [ix \in Indices(psi.shape) |-> Abs(psi.data[ix] - psiMax)]]
      flat == Ravel(dist)
      idx == CHOOSE n \in 0..(Len(flat) - 1) :
               /\ \A m \in 0..(Len(flat) - 1) : flat[n + 1] <= flat[m + 1]
               /\ \A m \in (n + 1)..(Len(flat) - 1) : flat[m + 1] > flat[n + 1]
      ji == unravel_index(idx, psi.shape)
  IN [psiMax |-> psiMax, idx |-> idx, j |-> ji[1], i |-> ji[2]]

\* idx = numpy.argmin(numpy.abs(psi-psiMax)); (j,i) = numpy.unravel_index(idx, psi.shape)
Locate(psi, psiMax) ==
  LET dist == [shape |-> psi.shape,
               data |-> [ix \in Indices(psi.shape) |-> Abs(psi.data[ix] - psiMax)]]
      idx == argmin(dist)
      ji == unravel_index(idx, psi.shape)
  IN [psiMax |-> psiMax, idx |-> idx, j |-> ji[1], i |-> ji[2]]

\* '%.1f' % v for a whole number v: its digits and one decimal, 0
Format1f(v) == <<v, 0>>

\* plt.plot(y[j,i],z[j,i],'kx'); plt.text(y[j,i],z[j,i],'%.1f'%(psi[j,i]))
Annotation(y, z, psi, j, i) ==
  <<[op |-> "plot", x |-> y.data[<<j, i>>], y |-> z.data[<<j, i>>], fmt |-> "kx"],
    [op |-> "text", x |-> y.data[<<j, i>>], y |-> z.data[<<j, i>>],
     s |-> Format1f(psi.data[<<j, i>>])]>>

\* the outcome of findExtrema(y, z, psi, min_lat, max_lat, min_depth, mult, plot):
\* its locals, what it returns or raises, and what it draws
findExtrema(y, z, psi, min_lat, max_lat, min_depth, mult, plot) ==
  LET psiMax == WindowExtremum(psi, InWindow(y, z, min_lat, max_lat, min_depth), mult)
  IN IF psiMax = Raise(ZeroSize)
     THEN [loc |-> None, ret |-> psiMax, drawn |-> <<>>]
     ELSE LET at == Locate(psi, psiMax.value)
          IN IF plot
             THEN [loc |-> at, ret |-> None, drawn |-> Annotation(y, z, psi, at.j, at.i)]
             ELSE [loc |-> at, ret |-> Return(psi.data[<<at.j, at.i>>]), drawn |-> <<>>]

(***************************************************************************)
(* The calls of findExtrema.                                               *)
(***************************************************************************)
\* streamfunction values of the grids searched
PsiVals == (0 - 1)..MaxVal
\* latitudes (degrees north) and elevations (metres, negative down) of the grids
LatVals == {0 - 30, 27}
DepthVals == {0 - 3000, 0}
\* the shapes [depth, latitude] of the grids searched
GridShapes == {sh \in {<<nz, ny>> : nz \in 1..MaxLayers, ny \in 1..MaxLat} : Size(sh) <= MaxCells}

\* the default bounds of findExtrema: min_lat=-90., max_lat=90., min_depth=0.
DefaultWindow == [min_lat |-> 0 - 90, max_lat |-> 90, min_depth |-> 0]
\* the search windows: the default one, a latitude band (as main's RAPID band
\* at 26..27 N) and a depth range (as main's min_depth=2000.)
Windows ==
  {DefaultWindow,
   [min_lat |-> 26, max_lat |-> 27, min_depth |-> 0],
   [min_lat |-> 0 - 90, max_lat |-> 90, min_depth |-> 2000]}

\* the latitude grids: a latitude per column, the same in every row (main's
\* yy = geolat_c.max(axis=-1) + 0*z)
LatGrids(shape) ==
  {[shape |-> shape, data |-> [ix \in Indices(shape) |-> lat[ix[2]]]] :
     lat \in [0..(shape[2] - 1) -> LatVals]}

InitExtrema ==
  /\ pc = "call"
  /\ \E shape \in GridShapes :
       \E psi \in Arrays(shape, PsiVals), y \in LatGrids(shape), z \in Arrays(shape, DepthVals),
          w \in Windows, mult \in {1, 0 - 1}, plot \in BOOLEAN :
         args = [y |-> y, z |-> z, psi |-> psi, min_lat |-> w.min_lat, max_lat |-> w.max_lat,
                 min_depth |-> w.min_depth, mult |-> mult, plot |-> plot]
  /\ loc = None
  /\ ret = None
  /\ fig = <<>>
  /\ log = <<>>

\* findExtrema(y, z, psi, min_lat, max_lat, min_depth, mult, plot)
CallFindExtrema ==
  /\ pc = "call" /\ "psi" \in DOMAIN args
  /\ LET out == findExtrema(args.y, args.z, args.psi, args.min_lat, args.max_lat,
                            args.min_depth, args.mult, args.plot)
     IN /\ loc' = out.loc
        /\ ret' = out.ret
        /\ fig' = fig \o out.drawn
  /\ pc' = "done"
  /\ UNCHANGED <<args, log>>

NextExtrema == CallFindExtrema

SpecExtrema == InitExtrema /\ [][NextExtrema]_vars

(***************************************************************************)
(* What the claims about findExtrema speak of.                             *)
(***************************************************************************)
FeDone == pc = "done"
Cells == Indices(args.psi.shape)
\* the cells of the search window: min_lat <= y <= max_lat and z < -min_depth
WindowCells ==
  {ix \in Cells : /\ args.min_lat <= args.y.data[ix]
                  /\ args.y.data[ix] <= args.max_lat
                  /\ args.z.data[ix] < 0 - args.min_depth}
MaxOf(S) == CHOOSE m \in S : \A x \in S : x <= m
MinOf(S) == CHOOSE m \in S : \A x \in S : m <= x
PsiOver(C) == {args.psi.data[ix] : ix \in C}
\* mult * max(mult * psi) over the cells of the window
SignedExtremum == args.mult * MaxOf({args.mult * args.psi.data[ix] : ix \in WindowCells})

\* C6: with a cell in the window and plot=False, findExtrema returns
\* mult * max(mult * psi) over the cells of the window: the largest psi of the
\* window for mult = 1, the smallest for mult = -1.
C6_WindowedExtremum ==
  (FeDone /\ WindowCells # {} /\ ~args.plot) =>
    /\ ret = [value |-> SignedExtremum]
    /\ (args.mult = 1) => ret = [value |-> MaxOf(PsiOver(WindowCells))]
    /\ (args.mult = 0 - 1) => ret = [value |-> MinOf(PsiOver(WindowCells))]

\* the smallest psi of a window that leaves out a cell holding a smaller one
C6_Witness ==
  /\ FeDone
  /\ ~args.plot
  /\ args.mult = 0 - 1
  /\ WindowCells # {}
  /\ ret = [value |-> 0]
  /\ \E ix \in Cells \ WindowCells : args.psi.data[ix] = 0 - 1

\* the bounds of the call are the default ones
DefaultBounds ==
  /\ args.min_lat = DefaultWindow.min_lat
  /\ args.max_lat = DefaultWindow.max_lat
  /\ args.min_depth = DefaultWindow.min_depth

\* the largest psi of the whole array for mult = 1, the smallest for mult = -1
ReturnsGlobalExtremum ==
  /\ (args.mult = 1) => ret = [value |-> MaxOf(PsiOver(Cells))]
  /\ (args.mult = 0 - 1) => ret = [value |-> MinOf(PsiOver(Cells))]

\* C7 as stated: with the default bounds findExtrema returns the extremum of
\* the whole array, whatever the latitude and depth grids.
C7_DefaultBoundsAnyGrid ==
  (FeDone /\ ~args.plot /\ DefaultBounds) => ReturnsGlobalExtremum

\* C7: with the default bounds findExtrema returns the extremum of the whole
\* array when every cell of the grids has -90 <= y <= 90 and z < 0.
C7_DefaultBoundsGridInside ==
  (FeDone /\ ~args.plot /\ DefaultBounds /\ WindowCells = Cells) => ReturnsGlobalExtremum

\* the smallest psi of a 2 x 2 array all of whose cells lie below the surface
C7_Witness ==
  /\ FeDone
  /\ ~args.plot
  /\ DefaultBounds
  /\ args.psi.shape = <<2, 2>>
  /\ WindowCells = Cells
  /\ args.mult = 0 - 1
  /\ ret = [value |-> 0 - 1]
  /\ \E ix \in Cells : args.psi.data[ix] = 1

\* ix comes before jx in row-major order
RowMajorBefore(ix, jx) == ix[1] < jx[1] \/ (ix[1] = jx[1] /\ ix[2] < jx[2])
\* how far the psi of a cell is from the extremum of the window
Distance(ix) == Abs(args.psi.data[ix] - SignedExtremum)

\* C8: the index (j,i) findExtrema locates is the first one, in row-major
\* order over the whole array, whose psi is closest to the extremum of the
\* window; the value returned (plot=False) is psi there, and the marker and
\* the text drawn (plot=True) are at y, z there and show psi there.
C8_FirstClosestIndex ==
  (FeDone /\ WindowCells # {}) =>
    LET at == <<loc.j, loc.i>>
    IN /\ at \in Cells
       /\ \A ix \in Cells : Distance(at) <= Distance(ix)
       /\ \A ix \in Cells : RowMajorBefore(ix, at) => Distance(ix) > Distance(at)
       /\ ~args.plot => (ret = [value |-> args.psi.data[at]] /\ fig = <<>>)
       /\ args.plot =>
            /\ ret = None
            /\ Len(fig) = 2
            /\ \A n \in 1..2 : fig[n].x = args.y.data[at] /\ fig[n].y = args.z.data[at]
            /\ fig[2].s = Format1f(args.psi.data[at])

\* the extremum is held by (0,1) and by (1,0) and by no cell before them:
\* (0,1), the earlier one by rows, is the one located
C8_Witness ==
  /\ FeDone
  /\ args.psi.shape = <<2, 2>>
  /\ WindowCells # {}
  /\ Distance(<<0, 1>>) = 0
  /\ Distance(<<1, 0>>) = 0
  /\ Distance(<<0, 0>>) > 0
  /\ loc.j = 0
  /\ loc.i = 1

\* C9: with no cell in the window findExtrema raises (numpy.amax's ValueError):
\* it returns no value and draws nothing.
C9_EmptyWindowRaises ==
  (FeDone /\ WindowCells = {}) =>
    /\ DOMAIN ret = {"raised"}
    /\ ret.raised = ZeroSize
    /\ fig = <<>>

\* a latitude band that holds no column of the grid
C9_Witness ==
  /\ FeDone
  /\ WindowCells = {}
  /\ args.min_lat = 26
  /\ args.psi.shape = <<2, 2>>
  /\ ~args.plot
  /\ DOMAIN ret = {"raised"}

(***************************************************************************)
(* stats.py: floating-point elements.                                      *)
(* An element of a field, of the weights or of a statistic is an exact     *)
(* fraction <<n, d>> in lowest terms with d > 0.  <<0, 0>> is NaN and      *)
(* <<1, 0>>, <<-1, 0>> are +inf and -inf, so that a division by zero gives *)
(* what IEEE arithmetic gives and raises nothing.  <<n, d, 2>> is the      *)
(* square root of n/d when that root is irrational.                        *)
(***************************************************************************)
NaN == <<0, 0>>

\* the float of an integer
Num(n) == <<n, 1>>

isnan(x) == x = NaN

RECURSIVE GCD(_, _)
GCD(a, b) == IF b = 0 THEN a ELSE GCD(b, a % b)

Sign(n) == IF n > 0 THEN 1 ELSE IF n < 0 THEN 0 - 1 ELSE 0

\* n/d in lowest terms, n/0 being NaN or an infinity
Frac(n, d) ==
  IF d = 0 THEN <<Sign(n), 0>>
  ELSE LET g == GCD(Abs(n), Abs(d))
       IN <<(Sign(d) * n) \div g, Abs(d) \div g>>

\* x + y, x - y, x * y, x / y and x <= y of floats
fadd(x, y) ==
  IF isnan(x) \/ isnan(y) THEN NaN
  ELSE IF x[2] = 0 /\ y[2] = 0 THEN (IF x = y THEN x ELSE NaN)
  ELSE IF x[2] = 0 THEN x
  ELSE IF y[2] = 0 THEN y
  ELSE Frac(x[1] * y[2] + y[1] * x[2], x[2] * y[2])

fsub(x, y) == fadd(x, <<0 - y[1], y[2]>>)

fmul(x, y) == IF isnan(x) \/ isnan(y) THEN NaN ELSE Frac(x[1] * y[1], x[2] * y[2])

\* the bug of a division guarded against a zero divisor
fdiv_zeroGuarded(x, y) ==
  IF isnan(x) \/ isnan(y) THEN NaN
  ELSE IF y[1] = 0 THEN Num(0)
  ELSE Frac(x[1] * y[2], x[2] * y[1])

fdiv(x, y) == IF isnan(x) \/ isnan(y) THEN NaN ELSE Frac(x[1] * y[2], x[2] * y[1])

fle(x, y) == IF x[2] = 0 /\ y[2] = 0 THEN x[1] <= y[1] ELSE x[1] * y[2] <= y[1] * x[2]

IsSquare(n) == \E r \in 0..n : r * r = n

Root(n) == CHOOSE r \in 0..n : r * r = n

\* numpy.sqrt of a float: NaN for NaN and for a negative number
fsqrt(x) ==
  IF isnan(x) \/ x[1] < 0 THEN NaN
  ELSE IF x[2] = 0 THEN x
  ELSE IF IsSquare(x[1]) /\ IsSquare(x[2]) THEN <<Root(x[1]), Root(x[2])>>
  ELSE <<x[1], x[2], 2>>

(***************************************************************************)
(* stats.py: xarray.DataArray.                                             *)
(* A DataArray is a record [dims, shape, data, coords, attrs]: dims names  *)
(* the axes, data maps every 0-based index tuple of shape to a float,      *)
(* coords is the set of names that have a coordinate variable and attrs    *)
(* is the attribute dictionary.  A collection of basin masks also has the  *)
(* field region, the labels of its region coordinate.  A numpy.ndarray is  *)
(* a record [shape, data].  All arrays of one call are on one grid: an     *)
(* axis name has one length.                                               *)
(*                                                                         *)
(* What a call comes to is a record [ret, log]: ret is Return(v) or        *)
(* Raise(e), and log lists, in order, the reductions the call has carried  *)
(* out and the lines it has printed.                                       *)
(***************************************************************************)
NoAttrs == {}

\* an exception of Python
Exc(type, msg) == [type |-> type, msg |-> msg]

Done(v) == [ret |-> Return(v), log |-> <<>>]
Fail(e) == [ret |-> Raise(e), log |-> <<>>]
Raised(r) == "raised" \in DOMAIN r.ret

\* r; F(the value of r): an exception of r ends the call
Then(r, F(_)) ==
  IF Raised(r) THEN r
  ELSE LET s == F(r.ret.value) IN [ret |-> s.ret, log |-> r.log \o s.log]

\* isinstance(x, xr.DataArray)
isDataArray(x) == "dims" \in DOMAIN x

\* d in dims
In(d, dims) == \E k \in 1..Len(dims) : dims[k] = d

\* dims.index(d) + 1
AxisOf(dims, d) == CHOOSE k \in 1..Len(dims) : dims[k] = d

\* the axes of dims that are not among red, in order
Keep(dims, red) == SelectSeq(dims, LAMBDA d : ~In(d, red))

\* the index, in an array with axes sub, of the cell with index ix in an array with axes dims
Pick(ix, dims, sub) == [k \in 1..Len(sub) |-> ix[AxisOf(dims, sub[k])]]

\* getattr(da, name) finds a coordinate or a dimension
Has(da, name) == name \in da.coords \/ In(name, da.dims)

\* a ** 2 (the attributes are dropped), numpy.sqrt(a) and a == 1.0, element
\* by element
Squared(a) ==
  [a EXCEPT !.data = [ix \in Indices(a.shape) |-> fmul(a.data[ix], a.data[ix])],
            !.attrs = NoAttrs]
Sqrt(a) == [a EXCEPT !.data = [ix \in Indices(a.shape) |-> fsqrt(a.data[ix])]]
EqualsOne(a) == [a EXCEPT !.data = [ix \in Indices(a.shape) |-> a.data[ix] = Num(1)]]

\* x op y of two elements; "where" is x where y is true and NaN elsewhere
Apply(op, x, y) ==
  IF op = "*" THEN fmul(x, y)
  ELSE IF op = "-" THEN fsub(x, y)
  ELSE IF op = "/" THEN fdiv(x, y)
  ELSE IF y THEN x ELSE NaN

\* a op b of two DataArrays: broadcast by axis name, a's axes first; the
\* attributes are dropped
Binary(a, op, b) ==
  LET dims == a.dims \o Keep(b.dims, a.dims)
      shape == [k \in 1..Len(dims) |->
                  IF In(dims[k], a.dims) THEN a.shape[AxisOf(a.dims, dims[k])]
                  ELSE b.shape[AxisOf(b.dims, dims[k])]]
  IN [dims |-> dims, shape |-> shape,
      data |-> [ix \in Indices(shape) |->
                  Apply(op, a.data[Pick(ix, dims, a.dims)], b.data[Pick(ix, dims, b.dims)])],
      coords |-> a.coords \cup b.coords, attrs |-> NoAttrs]

\* what Python and xarray raise, other than the ValueErrors of stats.py
NoneHasNo(attr) == Exc("AttributeError", <<"'NoneType' object has no attribute", attr>>)
NdarrayHasNo(attr) == Exc("AttributeError", <<"'numpy.ndarray' object has no attribute", attr>>)
DataArrayHasNo(attr) == Exc("AttributeError", <<"'DataArray' object has no attribute", attr>>)
NoDimKeyword == Exc("TypeError", "sum() got an unexpected keyword argument 'dim'")
TupleIndex == Exc("IndexError", "tuple index out of range")
DimNotFound == Exc("ValueError", "dimensions not found in the array")
CannotBroadcast == Exc("ValueError", "could not broadcast input array")
ConflictingSizes == Exc("ValueError", "conflicting sizes for dimension")
ZeroDim == Exc("TypeError", "iteration over a 0-d array")

\* the cells of a that a reduction over the axes red puts into the cell jx of the result
Group(a, red, jx) == {ix \in Indices(a.shape) : Pick(ix, a.dims, Keep(a.dims, red)) = jx}

\* skipna: the cells of G whose element is not NaN
Valid(a, G) == {ix \in G : ~isnan(a.data[ix])}

RECURSIVE FSum(_, _)
\* the sum of f over the cells S
FSum(f, S) ==
  IF S = {} THEN Num(0)
  ELSE LET x == CHOOSE x \in S : TRUE IN fadd(f[x], FSum(f, S \ {x}))

\* sum, min, max, mean and std (ddof = 0) of the cells G, NaN skipped: the
\* sum of no element is 0, the others are NaN
Reduction(method, a, G) ==
  LET V == Valid(a, G)
      mean == fdiv(FSum(a.data, V), Num(Cardinality(V)))
  IN IF method = "sum" THEN FSum(a.data, V)
     ELSE IF V = {} THEN NaN
     ELSE IF method = "min"
       THEN a.data[CHOOSE ix \in V : \A jx \in V : fle(a.data[ix], a.data[jx])]
     ELSE IF method = "max"
       THEN a.data[CHOOSE ix \in V : \A jx \in V : fle(a.data[jx], a.data[ix])]
     ELSE IF method = "mean" THEN mean
     ELSE fsqrt(fdiv(FSum([ix \in V |-> fmul(fsub(a.data[ix], mean), fsub(a.data[ix], mean))], V),
                     Num(Cardinality(V))))

\* a.<method>(dim=dims, keep_attrs=keep_attrs)
reduce(a, method, dims, keep_attrs) ==
  IF a = None THEN Fail(NoneHasNo(method))
  ELSE IF ~isDataArray(a) THEN Fail(NoDimKeyword)
  ELSE IF \E k \in 1..Len(dims) : ~In(dims[k], a.dims) THEN Fail(DimNotFound)
  ELSE LET keep == Keep(a.dims, dims)
           shape == [k \in 1..Len(keep) |-> a.shape[AxisOf(a.dims, keep[k])]]
       IN [ret |-> Return([dims |-> keep, shape |-> shape,
                           data |-> [jx \in Indices(shape) |->
                                       Reduction(method, a, Group(a, dims, jx))],
                           coords |-> a.coords \ {dims[k] : k \in 1..Len(dims)},
                           attrs |-> IF keep_attrs THEN a.attrs ELSE NoAttrs]),
           log |-> <<[op |-> method, arg |-> dims]>>]

\* a.where(cond), cond a DataArray of booleans: NaN where cond is false
where(a, cond) ==
  IF a = None THEN Fail(NoneHasNo("where"))
  ELSE IF ~isDataArray(a) THEN Fail(NdarrayHasNo("where"))
  ELSE Done([Binary(a, "where", cond) EXCEPT !.attrs = a.attrs])

\* numpy broadcasts an array of shape src to the shape dst
Broadcastable(src, dst) ==
  /\ Len(src) <= Len(dst)
  /\ \A k \in 1..Len(src) : src[k] \in {1, dst[Len(dst) - Len(src) + k]}

\* the element of b that broadcasting puts at the index ix of the larger array
At(b, ix) ==
  b.data[[k \in 1..Len(b.shape) |->
            IF b.shape[k] = 1 THEN 0 ELSE ix[Len(ix) - Len(b.shape) + k]]]

\* a.where(cond), cond a numpy array of booleans: broadcast by position
whereValues(a, cond) ==
  IF a = None THEN Fail(NoneHasNo("where"))
  ELSE IF ~isDataArray(a) THEN Fail(NdarrayHasNo("where"))
  ELSE IF ~Broadcastable(cond.shape, a.shape) THEN Fail(CannotBroadcast)
  ELSE Done([a EXCEPT !.data = [ix \in Indices(a.shape) |->
                                  IF At(cond, ix) THEN a.data[ix] ELSE NaN]])

(***************************************************************************)
(* stats.py: check_dims and the reducers of one statistic.                 *)
(***************************************************************************)
\* the default of the parameter dims
DefaultDims == <<"yh", "xh">>

\* the ValueErrors of check_dims
NoDims0 == Exc("ValueError", "DataArray does not have dimensions given by dims[0]")
NoDims1 == Exc("ValueError", "DataArray does not have dimensions given by dims[1]")

\* the bug of a check that trusts the second axis
check_dims_firstOnly(da, dims) ==
  IF ~In(dims[1], da.dims) THEN Fail(NoDims0) ELSE Done(None)

\* check_dims(da, dims); Python's dims[0], dims[1] are dims[1], dims[2] here
check_dims(da, dims) ==
  IF ~In(dims[1], da.dims) THEN Fail(NoDims0)
  ELSE IF Len(dims) < 2 THEN Fail(TupleIndex)
  ELSE IF ~In(dims[2], da.dims) THEN Fail(NoDims1)
  ELSE Done(None)

\* min_da(da, dims)
min_da(da, dims) ==
  Then(check_dims(da, dims), LAMBDA ok : reduce(da, "min", dims, TRUE))

\* max_da(da, dims)
max_da(da, dims) ==
  Then(check_dims(da, dims), LAMBDA ok : reduce(da, "max", dims, TRUE))

\* the bug of normalising by the mean weight, not by the total weight
WeightsSum_isMean(weights, dims, weights_sum) ==
  IF weights_sum = None THEN reduce(weights, "mean", dims, FALSE) ELSE Done(weights_sum)

\* weights_sum, computed if not provided
WeightsSum(weights, dims, weights_sum) ==
  IF weights_sum = None THEN reduce(weights, "sum", dims, FALSE) ELSE Done(weights_sum)

\* the bug of a weighted sum that is not divided by the total weight
mean_da_notNormalised(da, dims, weights, weights_sum) ==
  Then(check_dims(da, dims), LAMBDA ok :
    IF weights # None
    THEN Then(WeightsSum(weights, dims, weights_sum), LAMBDA total :
         Then(reduce(Binary(da, "*", weights), "sum", dims, FALSE), LAMBDA num :
           Done([num EXCEPT !.attrs = da.attrs])))
    ELSE reduce(da, "mean", dims, TRUE))

\* mean_da(da, dims, weights, weights_sum)
mean_da(da, dims, weights, weights_sum) ==
  Then(check_dims(da, dims), LAMBDA ok :
    IF weights # None
    THEN Then(WeightsSum(weights, dims, weights_sum), LAMBDA total :
         Then(reduce(Binary(da, "*", weights), "sum", dims, FALSE), LAMBDA num :
           Done([Binary(num, "/", total) EXCEPT !.attrs = da.attrs])))
    ELSE reduce(da, "mean", dims, TRUE))

\* the bug of deviations taken from zero, not from the mean
std_da_notCentred(da, dims, weights, weights_sum, da_mean) ==
  Then(check_dims(da, dims), LAMBDA ok :
    IF weights # None
    THEN Then(WeightsSum(weights, dims, weights_sum), LAMBDA total :
         Then(reduce(Binary(Squared(da), "*", weights), "sum", dims, FALSE), LAMBDA num :
           Done([Sqrt(Binary(num, "/", total)) EXCEPT !.attrs = da.attrs])))
    ELSE reduce(da, "std", dims, TRUE))

\* std_da(da, dims, weights, weights_sum, da_mean)
std_da(da, dims, weights, weights_sum, da_mean) ==
  Then(check_dims(da, dims), LAMBDA ok :
    IF weights # None
    THEN Then(WeightsSum(weights, dims, weights_sum), LAMBDA total :
         Then(IF da_mean = None THEN mean_da(da, dims, weights, total) ELSE Done(da_mean),
              LAMBDA mean :
         Then(reduce(Binary(Squared(Binary(da, "-", mean)), "*", weights),
                     "sum", dims, FALSE), LAMBDA num :
           Done([Sqrt(Binary(num, "/", total)) EXCEPT !.attrs = da.attrs]))))
    ELSE reduce(da, "std", dims, TRUE))

\* the bug of a root of the weighted mean of da, not of da ** 2
rms_da_notSquared(da, dims, weights, weights_sum) ==
  Then(check_dims(da, dims), LAMBDA ok :
    IF weights # None
    THEN Then(WeightsSum(weights, dims, weights_sum), LAMBDA total :
         Then(reduce(Binary(da, "*", weights), "sum", dims, FALSE), LAMBDA num :
           Done([Sqrt(Binary(num, "/", total)) EXCEPT !.attrs = da.attrs])))
    ELSE Then(reduce(da, "mean", dims, TRUE), LAMBDA mean : Done(Sqrt(mean))))

\* rms_da(da, dims, weights, weights_sum)
rms_da(da, dims, weights, weights_sum) ==
  Then(check_dims(da, dims), LAMBDA ok :
    IF weights # None
    THEN Then(WeightsSum(weights, dims, weights_sum), LAMBDA total :
         Then(reduce(Binary(Squared(da), "*", weights), "sum", dims, FALSE), LAMBDA num :
           Done([Sqrt(Binary(num, "/", total)) EXCEPT !.attrs = da.attrs])))
    ELSE Then(reduce(Squared(da), "mean", dims, TRUE), LAMBDA mean : Done(Sqrt(mean))))

(***************************************************************************)
(* stats.py: myStats_da, stats_to_ds and dict_to_da.  The parameter debug, *)
(* which only prints, is False.                                            *)
(***************************************************************************)
Unsized == Exc("TypeError", "len() of unsized object")
EmptyList == Exc("IndexError", "list index out of range")
NoRegion == Exc("ValueError", "Regions does not have coordinate region. Please use genBasinMasks to construct the basins mask.")

\* the length of the coordinate name of da, an axis of da
LenOf(da, name) == da.shape[AxisOf(da.dims, name)]

\* the names of the five statistics, in dict_to_da's order
stats == <<"da_min", "da_max", "da_mean", "da_std", "da_rms">>

\* stats_to_ds(da_min, da_max, da_mean, da_std, da_rms): a Dataset on the
\* time axis of da_min whose variables are the five arrays
stats_to_ds(da_min, da_max, da_mean, da_std, da_rms) ==
  IF ~Has(da_min, "time") THEN Fail(DataArrayHasNo("time"))
  ELSE IF ~In("time", da_min.dims) THEN Fail(Unsized)
  ELSE Done([time |-> LenOf(da_min, "time"), da_min |-> da_min, da_max |-> da_max,
             da_mean |-> da_mean, da_std |-> da_std, da_rms |-> da_rms,
             attrs |-> NoAttrs])

\* numpy assigns an array of shape src to a slice of shape dst
Assignable(src, dst) ==
  LET extra == Len(src) - Len(dst)
  IN IF extra > 0
     THEN /\ \A k \in 1..extra : src[k] = 1
          /\ Broadcastable(SubSeq(src, extra + 1, Len(src)), dst)
     ELSE Broadcastable(src, dst)

\* dict_to_da(stats_dict): stats_dict is the sequence of the items
\* [key, ds] of the OrderedDict (the keys are distinct)
dict_to_da(stats_dict) ==
  IF stats_dict = <<>> THEN Fail(EmptyList)
  ELSE LET time == stats_dict[1].ds.time
           shape == <<Len(stats_dict), Len(stats), time>>
       IN IF \E b \in 1..Len(stats_dict), n \in 1..Len(stats) :
               ~Assignable(stats_dict[b].ds[stats[n]].shape, <<time>>)
          THEN Fail(CannotBroadcast)
          ELSE Done([dims |-> <<"basin", "stats", "time">>, shape |-> shape,
                     data |-> [ix \in Indices(shape) |->
                                 At(stats_dict[ix[1] + 1].ds[stats[ix[2] + 1]], <<ix[3]>>)],
                     coords |-> {"basin", "stats", "time"}, attrs |-> NoAttrs,
                     basin |-> [b \in 1..Len(stats_dict) |-> stats_dict[b].key],
                     stats |-> stats])

\* basins.sel(region=reg).values for the k-th label of basins.region
RegionValues(basins, k) ==
  LET p == AxisOf(basins.dims, "region")
      shape == SubSeq(basins.shape, 1, p - 1) \o SubSeq(basins.shape, p + 1, Len(basins.shape))
  IN [shape |-> shape,
      data |-> [ix \in Indices(shape) |->
                  basins.data[SubSeq(ix, 1, p - 1) \o <<k - 1>> \o SubSeq(ix, p, Len(ix))]]]

\* basins.sel(region=reg).values == 1.0
RegionMask(basins, k) == EqualsOne(RegionValues(basins, k))

\* lines 409-418 and 434-444 of myStats_da: the total weight and the five
\* statistics of da, as a Dataset
Statistics(da, dims, weights) ==
  Then(reduce(weights, "sum", dims, FALSE), LAMBDA total_weights :
  Then(min_da(da, dims), LAMBDA da_min :
  Then(max_da(da, dims), LAMBDA da_max :
  Then(mean_da(da, dims, weights, total_weights), LAMBDA da_mean :
  Then(std_da(da, dims, weights, total_weights, da_mean), LAMBDA da_std :
  Then(rms_da(da, dims, weights, total_weights), LAMBDA da_rms :
    stats_to_ds(da_min, da_max, da_mean, da_std, da_rms)))))))

RECURSIVE myStats_regions_weightsNotMasked(_, _, _, _, _)
\* the bug of regional statistics taken with the weights of the whole grid
myStats_regions_weightsNotMasked(da, weights, dims, basins, k) ==
  IF k > Len(basins.region) THEN Done(<<>>)
  ELSE Then(whereValues(da, RegionMask(basins, k)), LAMBDA da_reg :
       Then(Statistics(da_reg, dims, weights), LAMBDA out :
       Then(myStats_regions_weightsNotMasked(da, weights, dims, basins, k + 1), LAMBDA rest :
         Done(<<[key |-> basins.region[k], ds |-> out]>> \o rest))))

RECURSIVE myStats_regions_fieldNotMasked(_, _, _, _, _)
\* the bug of regional statistics taken of the field of the whole grid
myStats_regions_fieldNotMasked(da, weights, dims, basins, k) ==
  IF k > Len(basins.region) THEN Done(<<>>)
  ELSE Then(whereValues(weights, RegionMask(basins, k)), LAMBDA tmp_weights :
       Then(Statistics(da, dims, tmp_weights), LAMBDA out :
       Then(myStats_regions_fieldNotMasked(da, weights, dims, basins, k + 1), LAMBDA rest :
         Done(<<[key |-> basins.region[k], ds |-> out]>> \o rest))))

RECURSIVE myStats_regions(_, _, _, _, _)
\* the loop of myStats_da over basins.region, from the k-th region on: the
\* items it adds to rmask_od
myStats_regions(da, weights, dims, basins, k) ==
  IF k > Len(basins.region) THEN Done(<<>>)
  ELSE Then(whereValues(da, RegionMask(basins, k)), LAMBDA da_reg :
       Then(whereValues(weights, RegionMask(basins, k)), LAMBDA tmp_weights :
       Then(Statistics(da_reg, dims, tmp_weights), LAMBDA out :
       Then(myStats_regions(da, weights, dims, basins, k + 1), LAMBDA rest :
         Done(<<[key |-> basins.region[k], ds |-> out]>> \o rest)))))

\* print('compute weights here')
ComputeWeightsHere ==
  [ret |-> Return(None), log |-> <<[op |-> "print", arg |-> "compute weights here"]>>]

\* myStats_da(da, weights, dims, basins)
myStats_da(da, weights, dims, basins) ==
  Then(check_dims(da, dims), LAMBDA ok :
  Then(IF weights = None THEN ComputeWeightsHere ELSE Done(None), LAMBDA printed :
    IF basins = None
    THEN Then(Statistics(da, dims, weights), LAMBDA out :
           dict_to_da(<<[key |-> "Global", ds |-> [out EXCEPT !.attrs = da.attrs]]>>))
    ELSE IF "region" \notin basins.coords THEN Fail(NoRegion)
    ELSE IF ~In("region", basins.dims) THEN Fail(ZeroDim)
    ELSE Then(myStats_regions(da, weights, dims, basins, 1), LAMBDA rmask_od :
           dict_to_da(rmask_od))))

(***************************************************************************)
(* stats.py: HorizontalMeanRmse_da and HorizontalMeanDiff_da (debug is     *)
(* False).                                                                 *)
(***************************************************************************)
BasinsNeedWeights == Exc("ValueError", "Basin masks can only be applied if weights are provided.")
WeightsNotDataArray == Exc("ValueError", "weights must be a DataArray")
WeightsNot3D == Exc("ValueError", "If basins is provided, weights must be a 3D array.")
RegionsNot3D == Exc("ValueError", "Regions must be a 3D array.")
WrongNumberOfDims == Exc("ValueError", "different number of dimensions on data and dims")

\* lines 104-108 and 191-195: region3d, the values of the k-th region repeated
\* over the levels of var, on the axes of var after the first
region3d(var, basins, k) ==
  LET mask == RegionValues(basins, k)
  IN IF ~Has(var, "z_l") THEN Fail(DataArrayHasNo("z_l"))
     ELSE IF ~In("z_l", var.dims) THEN Fail(Unsized)
     ELSE IF Len(var.dims) < 3 THEN Fail(TupleIndex)
     ELSE IF ~Has(var, "yh") THEN Fail(DataArrayHasNo("yh"))
     ELSE IF Len(var.dims) < 4 THEN Fail(TupleIndex)
     ELSE IF ~Has(var, "xh") THEN Fail(DataArrayHasNo("xh"))
     ELSE IF Len(var.dims) # 4 THEN Fail(WrongNumberOfDims)
     ELSE IF \/ ~In("yh", var.dims) \/ LenOf(var, "yh") # mask.shape[1]
             \/ ~In("xh", var.dims) \/ LenOf(var, "xh") # mask.shape[2]
       THEN Fail(ConflictingSizes)
     ELSE LET shape == <<LenOf(var, "z_l")>> \o mask.shape
          IN Done([dims |-> Tail(var.dims), shape |-> shape,
                   data |-> [ix \in Indices(shape) |-> mask.data[Tail(ix)]],
                   coords |-> {var.dims[2], var.dims[3], var.dims[4]},
                   attrs |-> NoAttrs])

RECURSIVE HorizontalRegions(_, _, _, _, _, _)
\* the loop over basins.region, from the k-th region on, of
\* HorizontalMeanRmse_da (stat = "rms") and HorizontalMeanDiff_da (stat =
\* "mean"): the items it adds to rmask_od.  The statistic is taken with the
\* default dims.
HorizontalRegions(var, dims, weights, basins, k, stat) ==
  IF k > Len(basins.region) THEN Done(<<>>)
  ELSE Then(region3d(var, basins, k), LAMBDA region :
       Then(where(weights, EqualsOne(region)), LAMBDA tmp_weights :
       Then(reduce(tmp_weights, "sum", dims, FALSE), LAMBDA total_weights :
       Then(IF stat = "rms" THEN rms_da(var, DefaultDims, tmp_weights, total_weights)
            ELSE mean_da(var, DefaultDims, tmp_weights, total_weights), LAMBDA field :
       Then(HorizontalRegions(var, dims, weights, basins, k + 1, stat), LAMBDA rest :
         Done(<<[key |-> basins.region[k], field |-> field]>> \o rest))))))

\* lines 118-125 and 203-210: the array out, a row per region
RegionRows(var, basins, rmask_od) ==
  LET shape == <<Len(basins.region), var.shape[1], var.shape[2]>>
  IN IF ~Has(var, "time") THEN Fail(DataArrayHasNo("time"))
     ELSE IF \/ ~In("time", var.dims) \/ LenOf(var, "time") # var.shape[1]
             \/ LenOf(var, "z_l") # var.shape[2]
       THEN Fail(ConflictingSizes)
     ELSE IF \E b \in 1..Len(rmask_od) :
               ~Assignable(rmask_od[b].field.shape, <<var.shape[1], var.shape[2]>>)
       THEN Fail(CannotBroadcast)
     ELSE Done([dims |-> <<basins.dims[1], var.dims[1], var.dims[2]>>, shape |-> shape,
                data |-> [ix \in Indices(shape) |->
                            At(rmask_od[ix[1] + 1].field, <<ix[2], ix[3]>>)],
                coords |-> {basins.dims[1], var.dims[1], var.dims[2]},
                attrs |-> NoAttrs,
                region |-> [b \in 1..Len(rmask_od) |-> rmask_od[b].key]])

\* the regional reduction of both wrappers (lines 91-125 and 179-210)
Regional(var, dims, weights, basins, stat) ==
  IF "region" \notin basins.coords THEN Fail(NoRegion)
  ELSE IF Len(weights.shape) # 3 THEN Fail(WeightsNot3D)
  ELSE IF Len(basins.shape) # 3 THEN Fail(RegionsNot3D)
  ELSE IF ~In("region", basins.dims) THEN Fail(ZeroDim)
  ELSE Then(HorizontalRegions(var, dims, weights, basins, 1, stat), LAMBDA rmask_od :
         RegionRows(var, basins, rmask_od))

\* HorizontalMeanRmse_da(var, dims, weights, basins)
HorizontalMeanRmse_da(var, dims, weights, basins) ==
  Then(check_dims(var, dims), LAMBDA ok :
    IF basins # None /\ weights = None THEN Fail(BasinsNeedWeights)
    ELSE IF weights = None THEN rms_da(var, DefaultDims, None, None)
    ELSE IF basins = None
      THEN IF ~isDataArray(weights) THEN Fail(WeightsNotDataArray)
           ELSE Then(check_dims(weights, dims), LAMBDA checked :
                Then(reduce(weights, "sum", dims, FALSE), LAMBDA total_weights :
                  rms_da(var, DefaultDims, weights, total_weights)))
    ELSE Regional(var, dims, weights, basins, "rms"))

\* HorizontalMeanDiff_da(var, dims, weights, basins)
HorizontalMeanDiff_da(var, dims, weights, basins) ==
  Then(check_dims(var, dims), LAMBDA ok :
    IF basins # None /\ weights = None THEN Fail(BasinsNeedWeights)
    ELSE IF weights = None THEN reduce(var, "mean", dims, FALSE)
    ELSE IF basins = None
      THEN IF ~isDataArray(weights) THEN Fail(WeightsNotDataArray)
           ELSE Then(check_dims(weights, dims), LAMBDA checked :
                Then(reduce(weights, "sum", dims, FALSE), LAMBDA total_weights :
                  mean_da(var, DefaultDims, weights, total_weights)))
    ELSE Regional(var, dims, weights, basins, "mean"))

(***************************************************************************)
(* The calls of the reducers.                                              *)
(***************************************************************************)
\* the lengths of the axes time, z_l, yh (or lat) and xh (or lon) of the grid
Times == 2
Levels == 2
Rows == 2
Columns == 1
\* a collection of basin masks has at most MaxRegions regions
MaxRegions == 2
\* the fields and the weights that hold one value in every cell hold 0..MaxField
MaxField == 1

AxisLength(name) ==
  IF name = "time" THEN Times
  ELSE IF name = "z_l" THEN Levels
  ELSE IF name \in {"yh", "lat"} THEN Rows
  ELSE Columns

GridShape(dims) == [k \in 1..Len(dims) |-> AxisLength(dims[k])]

RECURSIVE CellNumber(_)
\* the sum of the indices of a cell
CellNumber(ix) == IF ix = <<>> THEN 0 ELSE ix[1] + CellNumber(Tail(ix))

\* the element of a cell: kind 0..MaxField is that value in every cell; kind
\* -1 is a value that differs from cell to cell, from low on; kind -2 is
\* the same with NaN in the first cell
Cell(kind, low, ix) ==
  IF kind >= 0 THEN Num(kind)
  ELSE IF kind = 0 - 2 /\ CellNumber(ix) = 0 THEN NaN
  ELSE Num(low + CellNumber(ix))

\* a DataArray on the axes dims of the grid, with a coordinate on every axis
OnGrid(dims, kind, low, attrs) ==
  [dims |-> dims, shape |-> GridShape(dims),
   data |-> [ix \in Indices(GridShape(dims)) |-> Cell(kind, low, ix)],
   coords |-> {dims[k] : k \in 1..Len(dims)}, attrs |-> attrs]

\* the attributes of a field
Units == {<<"units", "degC">>}

\* the fields: with and without levels, and without one or both of yh, xh
FieldDims ==
  {<<"time", "yh", "xh">>, <<"time", "z_l", "yh", "xh">>, <<"time", "yh">>,
   <<"time", "xh">>, <<"time", "lat", "lon">>}
Fields == {OnGrid(d, kind, 0 - 1, Units) : d \in FieldDims, kind \in (0 - 2)..MaxField}

\* the values of the parameter dims
DimsArgs ==
  {DefaultDims, <<"lat", "lon">>, <<"yh", "lon">>, <<"lat", "xh">>, <<"yh">>}

\* the weights: none, a DataArray (non-negative, NaN where masked) or a numpy array
WeightDims == {<<"yh", "xh">>, <<"z_l", "yh", "xh">>, <<"lat", "lon">>}
WeightArrays ==
  {OnGrid(d, kind, 1, NoAttrs) : d \in WeightDims, kind \in (0 - 2)..MaxField}
    \cup {OnGrid(<<"z_l", "lat", "lon">>, 1, 1, NoAttrs)}
Values(a) == [shape |-> a.shape, data |-> a.data]
Weights == {None} \cup WeightArrays \cup {Values(OnGrid(DefaultDims, 1, 1, NoAttrs))}

\* weights_sum: not provided, or the sum of the weights over dims
WeightsSums(weights, dims) ==
  LET total == reduce(weights, "sum", dims, FALSE)
  IN {None} \cup (IF Raised(total) THEN {} ELSE {total.ret.value})

\* the label of the k-th region
RegionName(k) == <<"region", k>>

\* n basin masks on [region, yh, xh] that share the cells of the grid among them
BasinMasks(n) ==
  LET shape == <<n, Rows, Columns>>
  IN [dims |-> <<"region", "yh", "xh">>, shape |-> shape,
      data |-> [ix \in Indices(shape) |->
                  IF (ix[2] + ix[3]) % n = ix[1] THEN Num(1) ELSE Num(0)],
      coords |-> {"region", "yh", "xh"}, attrs |-> NoAttrs,
      region |-> [k \in 1..n |-> RegionName(k)]]

\* the basins: none, masks as genBasinMasks makes them, masks without the
\* coordinate region, and the mask of one region (region a scalar coordinate)
Basins ==
  {None} \cup {BasinMasks(n) : n \in 1..MaxRegions}
    \cup {[BasinMasks(1) EXCEPT !.coords = {"yh", "xh"}]}
    \cup {[dims |-> DefaultDims, shape |-> GridShape(DefaultDims),
           data |-> [ix \in Indices(GridShape(DefaultDims)) |-> Num(1)],
           coords |-> {"region", "yh", "xh"}, attrs |-> NoAttrs,
           region |-> RegionName(1)]}

\* a call of each reducer, with its arguments
InitStats ==
  /\ pc = "call"
  /\ \/ \E fn \in {"min_da", "max_da"}, da \in Fields, dims \in DimsArgs :
          args = [fn |-> fn, da |-> da, dims |-> dims]
     \/ \E fn \in {"mean_da", "rms_da"}, da \in Fields, dims \in DimsArgs, w \in Weights :
          \E ws \in WeightsSums(w, dims) :
            args = [fn |-> fn, da |-> da, dims |-> dims, weights |-> w, weights_sum |-> ws]
     \/ \E da \in Fields, dims \in DimsArgs, w \in Weights :
          \E ws \in WeightsSums(w, dims) :
            args = [fn |-> "std_da", da |-> da, dims |-> dims, weights |-> w,
                    weights_sum |-> ws, da_mean |-> None]
     \/ \E da \in Fields, w \in Weights, dims \in DimsArgs, b \in Basins :
          args = [fn |-> "myStats_da", da |-> da, weights |-> w, dims |-> dims, basins |-> b]
     \/ \E fn \in {"HorizontalMeanDiff_da", "HorizontalMeanRmse_da"},
           da \in Fields, dims \in DimsArgs, w \in Weights, b \in Basins :
          args = [fn |-> fn, var |-> da, dims |-> dims, weights |-> w, basins |-> b]
  /\ loc = None
  /\ ret = None
  /\ fig = <<>>
  /\ log = <<>>

\* the call ends with what it returned or raised and with what it logged
Ends(out) ==
  /\ ret' = out.ret
  /\ log' = log \o out.log
  /\ pc' = "done"
  /\ UNCHANGED <<args, loc, fig>>

CallMinDa ==
  /\ pc = "call" /\ args.fn = "min_da"
  /\ Ends(min_da(args.da, args.dims))

CallMaxDa ==
  /\ pc = "call" /\ args.fn = "max_da"
  /\ Ends(max_da(args.da, args.dims))

CallMeanDa ==
  /\ pc = "call" /\ args.fn = "mean_da"
  /\ Ends(mean_da(args.da, args.dims, args.weights, args.weights_sum))

CallStdDa ==
  /\ pc = "call" /\ args.fn = "std_da"
  /\ Ends(std_da(args.da, args.dims, args.weights, args.weights_sum, args.da_mean))

CallRmsDa ==
  /\ pc = "call" /\ args.fn = "rms_da"
  /\ Ends(rms_da(args.da, args.dims, args.weights, args.weights_sum))

CallMyStatsDa ==
  /\ pc = "call" /\ args.fn = "myStats_da"
  /\ Ends(myStats_da(args.da, args.weights, args.dims, args.basins))

CallHorizontalMeanDiffDa ==
  /\ pc = "call" /\ args.fn = "HorizontalMeanDiff_da"
  /\ Ends(HorizontalMeanDiff_da(args.var, args.dims, args.weights, args.basins))

CallHorizontalMeanRmseDa ==
  /\ pc = "call" /\ args.fn = "HorizontalMeanRmse_da"
  /\ Ends(HorizontalMeanRmse_da(args.var, args.dims, args.weights, args.basins))

NextStats ==
  \/ CallMinDa
  \/ CallMaxDa
  \/ CallMeanDa
  \/ CallStdDa
  \/ CallRmsDa
  \/ CallMyStatsDa
  \/ CallHorizontalMeanDiffDa
  \/ CallHorizontalMeanRmseDa

SpecStats == InitStats /\ [][NextStats]_vars

(***************************************************************************)
(* The calls of the weighted statistics on arrays that fit: a field on     *)
(* [time, yh, xh], weights on [yh, xh], dims the default, and basins on    *)
(* [region, yh, xh].                                                       *)
(***************************************************************************)
\* a field with the value c in every cell
Constant(dims, c, attrs) ==
  [dims |-> dims, shape |-> GridShape(dims),
   data |-> [ix \in Indices(GridShape(dims)) |-> Num(c)],
   coords |-> {dims[k] : k \in 1..Len(dims)}, attrs |-> attrs]

\* the fields: one value in every cell, of either sign, and values that
\* differ from cell to cell, with and without a missing one
SurfaceDims == <<"time", "yh", "xh">>
\* the field a with its first horizontal cell missing at every time step
\* (a land cell)
Land(a) ==
  [a EXCEPT !.data = [ix \in Indices(a.shape) |->
                        IF CellNumber(Tail(ix)) = 0 THEN NaN ELSE a.data[ix]]]
SurfaceFields ==
  {Constant(SurfaceDims, c, Units) : c \in ((0 - MaxField)..MaxField) \cup {5}}
    \cup {OnGrid(SurfaceDims, 0 - 1, 0 - 1, Units), OnGrid(SurfaceDims, 0 - 2, 1, Units)}
    \cup {Land(Constant(SurfaceDims, 5, Units))}

\* the weights (cell areas): one value in every cell (0 included), values
\* that differ from cell to cell, from 1 on or from 0 on, and the same with
\* the first cell masked
CellWeights ==
  {OnGrid(DefaultDims, kind, 1, NoAttrs) : kind \in (0 - 2)..(MaxField + 1)}
    \cup {OnGrid(DefaultDims, kind, 0, NoAttrs) : kind \in {0 - 2, 0 - 1}}

\* n basin masks on [region, yh, xh].  "partition": the cells are shared
\* among the regions.  "overlap": the same, but the first region has every
\* cell.  "hole": the cells are shared among the regions and the outside,
\* so that some cells are in no region and a region can have no cell.
RegionMasks(n, kind) ==
  LET shape == <<n, Rows, Columns>>
      inside(ix) ==
        IF kind = "hole" THEN (ix[2] + ix[3]) % (n + 1) = ix[1] + 1
        ELSE \/ (ix[2] + ix[3]) % n = ix[1]
             \/ kind = "overlap" /\ ix[1] = 0
  IN [dims |-> <<"region", "yh", "xh">>, shape |-> shape,
      data |-> [ix \in Indices(shape) |-> IF inside(ix) THEN Num(1) ELSE Num(0)],
      coords |-> {"region", "yh", "xh"}, attrs |-> NoAttrs,
      region |-> [k \in 1..n |-> RegionName(k)]]

SurfaceBasins ==
  {None} \cup {RegionMasks(n, kind) : n \in 1..MaxRegions,
                                      kind \in {"partition", "overlap", "hole"}}

\* a call of mean_da, std_da, rms_da or myStats_da on such arrays
InitWeighted ==
  /\ pc = "call"
  /\ \/ \E fn \in {"mean_da", "rms_da"}, da \in SurfaceFields, w \in CellWeights :
          \E ws \in WeightsSums(w, DefaultDims) :
            args = [fn |-> fn, da |-> da, dims |-> DefaultDims, weights |-> w,
                    weights_sum |-> ws]
     \/ \E da \in SurfaceFields, w \in CellWeights :
          \E ws \in WeightsSums(w, DefaultDims) :
            args = [fn |-> "std_da", da |-> da, dims |-> DefaultDims, weights |-> w,
                    weights_sum |-> ws, da_mean |-> None]
     \/ \E da \in SurfaceFields, w \in CellWeights, b \in SurfaceBasins :
          args = [fn |-> "myStats_da", da |-> da, weights |-> w, dims |-> DefaultDims,
                  basins |-> b]
  /\ loc = None
  /\ ret = None
  /\ fig = <<>>
  /\ log = <<>>

NextWeighted ==
  \/ CallMeanDa
  \/ CallStdDa
  \/ CallRmsDa
  \/ CallMyStatsDa

SpecWeighted == InitWeighted /\ [][NextWeighted]_vars

(***************************************************************************)
(* What the claims about the reducers speak of.                            *)
(***************************************************************************)
Reducers ==
  {"min_da", "max_da", "mean_da", "std_da", "rms_da", "myStats_da",
   "HorizontalMeanDiff_da", "HorizontalMeanRmse_da"}

\* a call of a reducer has ended
StatsDone == pc = "done" /\ args.fn \in Reducers

\* the field of the call: the parameter da, or var of the two wrappers
Field == IF "da" \in DOMAIN args THEN args.da ELSE args.var

\* Python's dims[p] is given and is not a dimension of the field
Missing(p) == p < Len(args.dims) /\ ~In(args.dims[p + 1], Field.dims)

\* the reductions among the entries of the log
Reductions == SelectSeq(log, LAMBDA e : e.op \in {"sum", "min", "max", "mean", "std"})

Partitioned == {"myStats_da", "HorizontalMeanDiff_da", "HorizontalMeanRmse_da"}

\* Python's dims[p] is given and is not a dimension of the weights, a DataArray
WeightsMissing(p) ==
  /\ isDataArray(args.weights)
  /\ p < Len(args.dims)
  /\ ~In(args.dims[p + 1], args.weights.dims)

\* the call is global (no basins), or regional with basins as genBasinMasks
\* makes them and, for the two wrappers, a field [time, z_l, yh, xh] and
\* weights of rank 3
WellFormedButWeights ==
  /\ Len(args.dims) = 2 /\ ~Missing(0) /\ ~Missing(1)
  /\ args.basins # None =>
       /\ "region" \in args.basins.coords /\ In("region", args.basins.dims)
       /\ args.fn # "myStats_da" =>
            /\ Field.dims = <<"time", "z_l", "yh", "xh">>
            /\ Len(args.weights.shape) = 3

\* the errors that tell which axis is missing: those of check_dims and the
\* one of xarray's reduction
NamesMissingAxis == {NoDims0, NoDims1, DimNotFound}

\* C11: whenever weights are provided to myStats_da, HorizontalMeanDiff_da or
\* HorizontalMeanRmse_da, global or regional, and dims[0] or dims[1] is not
\* a dimension of the weights, the call raises an error that tells the axis
\* is missing, and no reduction has been carried out.
C11_WeightsDimsValidated ==
  (/\ StatsDone /\ args.fn \in Partitioned
   /\ WeightsMissing(0) \/ WeightsMissing(1)
   /\ WellFormedButWeights) =>
    /\ DOMAIN ret = {"raised"}
    /\ ret.raised \in NamesMissingAxis
    /\ Reductions = <<>>

\* the rank the weights of a regional call are expected to have: 3 for the
\* two wrappers, whose fields have levels, and the rank of the field less
\* the time axis for myStats_da
ExpectedWeightsRank ==
  IF args.fn = "myStats_da" THEN Len(Field.dims) - 1 ELSE 3

\* the call is regional, with weights, and dims names two axes of the field
RegionalCall ==
  /\ StatsDone /\ args.fn \in Partitioned
  /\ args.basins # None /\ args.weights # None
  /\ Len(args.dims) = 2 /\ ~Missing(0) /\ ~Missing(1)

\* the basins lack the coordinate region, or the weights or the basins do
\* not have the expected rank
UnfitRegions ==
  \/ "region" \notin args.basins.coords
  \/ Len(args.weights.shape) # ExpectedWeightsRank
  \/ Len(args.basins.shape) # 3

\* C18: a regional call of myStats_da, HorizontalMeanDiff_da or
\* HorizontalMeanRmse_da whose basins lack the coordinate region, or whose
\* weights or basins do not have the expected rank, raises one of the
\* ValueErrors that say so and has carried out no reduction.
C18_UnfitRegionsRaiseFirst ==
  (RegionalCall /\ UnfitRegions) =>
    /\ DOMAIN ret = {"raised"}
    /\ ret.raised \in {NoRegion, WeightsNot3D, RegionsNot3D}
    /\ Reductions = <<>>

\* the two wrappers
Wrappers == {"HorizontalMeanDiff_da", "HorizontalMeanRmse_da"}

\* the weights of the call fit the field and dims: none (and then no
\* basins), or a DataArray on axes of the field, dims[0] and dims[1] among them
WeightsFit ==
  IF args.weights = None THEN args.basins = None
  ELSE /\ isDataArray(args.weights)
       /\ ~WeightsMissing(0) /\ ~WeightsMissing(1)
       /\ \A k \in 1..Len(args.weights.dims) : In(args.weights.dims[k], Field.dims)

\* C19: a call of HorizontalMeanRmse_da or HorizontalMeanDiff_da whose field
\* and weights have the two dimensions passed in dims (the default or any
\* other) returns, and every reduction it has carried out, of the numerator
\* and of the total weight, unweighted, global or regional, is over dims.
C19_ReducesOverDims ==
  (StatsDone /\ args.fn \in Wrappers /\ WeightsFit /\ WellFormedButWeights) =>
    /\ DOMAIN ret = {"value"}
    /\ \A k \in 1..Len(Reductions) : Reductions[k].arg = args.dims

(***************************************************************************)
(* What the claims about the weighted statistics speak of, in a call of    *)
(* mean_da, std_da, rms_da or myStats_da on arrays that fit.               *)
(***************************************************************************)
WeightedDone == pc = "done" /\ args.fn \in {"mean_da", "std_da", "rms_da", "myStats_da"}

\* the call has returned
Returned == DOMAIN ret = {"value"}

\* the basins of the call, None for the reducers that take none
TheBasins == IF "basins" \in DOMAIN args THEN args.basins ELSE None

\* the rows of the result (0-based): one per region, or the one of 'Global'
ResultRows == IF TheBasins = None THEN {0} ELSE 0..(Len(TheBasins.region) - 1)

\* the time steps (0-based)
TimeSteps == 0..(Field.shape[1] - 1)

\* the cells of the horizontal grid, and those of the b-th row's region
HorizontalCells == Indices(args.weights.shape)
InRegion(b, c) == TheBasins = None \/ TheBasins.data[<<b>> \o c] = Num(1)
RegionCells(b) == {c \in HorizontalCells : InRegion(b, c)}

\* the total weight of the b-th row's region: the weights that are not masked
RegionWeight(b) ==
  FSum(args.weights.data, {c \in RegionCells(b) : ~isnan(args.weights.data[c])})

\* the call computes the n-th statistic of stats
Computes(n) ==
  args.fn \in {"myStats_da", <<"min_da", "max_da", "mean_da", "std_da", "rms_da">>[n]}

\* the n-th statistic the call reports for the b-th row at time step t
StatAt(n, b, t) ==
  IF args.fn = "myStats_da" THEN ret.value.data[<<b, n - 1, t>>] ELSE ret.value.data[<<t>>]

\* C12: when the total weight of a region (or of the whole grid, without
\* basins) is zero, the call raises nothing and the weighted mean, std and
\* rms of that region are NaN at every time step.
C12_ZeroWeightIsNaN ==
  WeightedDone =>
    \A b \in ResultRows :
      RegionWeight(b) = Num(0) =>
        /\ Returned
        /\ \A t \in TimeSteps, n \in {3, 4, 5} : Computes(n) => isnan(StatAt(n, b, t))

\* myStats_da on a field of all 5 with positive weights and two regions, the
\* second with no cell: its mean, std and rms are NaN, the first region's
\* mean is 5
C12_Witness ==
  /\ WeightedDone /\ Returned
  /\ args.fn = "myStats_da"
  /\ args.da = Constant(SurfaceDims, 5, Units)
  /\ args.weights = OnGrid(DefaultDims, 0 - 1, 1, NoAttrs)
  /\ args.basins = RegionMasks(2, "hole")
  /\ RegionCells(1) = {} /\ RegionWeight(1) = Num(0)
  /\ \A t \in TimeSteps, n \in {3, 4, 5} : isnan(StatAt(n, 1, t))
  /\ \A t \in TimeSteps : StatAt(3, 0, t) = Num(5)

\* the weights are the same positive number in every cell
UniformWeights ==
  \E c \in HorizontalCells :
    /\ ~isnan(args.weights.data[c]) /\ args.weights.data[c][1] > 0
    /\ \A d \in HorizontalCells : args.weights.data[d] = args.weights.data[c]

\* no element of the field is missing
NoMissing == \A ix \in Indices(Field.shape) : ~isnan(Field.data[ix])

\* what mean_da returns for the field of the call without weights
Unweighted == mean_da(args.da, args.dims, None, None).ret

\* C13 as claimed: for any field, mean_da with weights that are the same
\* positive constant in every cell returns what mean_da without weights returns.
C13_UniformWeightsAnyField ==
  (WeightedDone /\ args.fn = "mean_da" /\ UniformWeights) => ret = Unweighted

\* C13, amended: for any field without missing (NaN) elements, mean_da with
\* weights that are the same positive constant in every cell returns what
\* mean_da without weights returns: the unweighted mean over dims.
C13_UniformWeightsNoMissing ==
  (WeightedDone /\ args.fn = "mean_da" /\ UniformWeights /\ NoMissing) =>
    /\ Returned
    /\ ret = Unweighted

\* the field that differs from cell to cell, with uniform weights 2: the
\* mean of each time step is the plain average of its cells
C13_Witness ==
  /\ WeightedDone /\ args.fn = "mean_da" /\ Returned
  /\ args.da = OnGrid(SurfaceDims, 0 - 1, 0 - 1, Units)
  /\ args.weights = OnGrid(DefaultDims, 2, 1, NoAttrs)
  /\ UniformWeights /\ NoMissing
  /\ ret = Unweighted
  /\ \E t \in TimeSteps : ret.value.data[<<t>>] \notin {Num(0), NaN}

\* the field holds the float c in every cell
FieldIs(c) == \A ix \in Indices(Field.shape) : Field.data[ix] = c

\* the floats the fields hold in every cell
FieldValues == {Field.data[ix] : ix \in Indices(Field.shape)} \ {NaN}

\* |c| of a float
fabs(c) == <<Abs(c[1]), c[2]>>

\* C14: for a field that holds one number c, of either sign, in every cell
\* and non-negative weights that are not all zero (or masked), rms_da
\* returns |c| at every time step.
C14_RmsOfConstantField ==
  (WeightedDone /\ args.fn = "rms_da" /\ RegionWeight(0) # Num(0)) =>
    \A c \in FieldValues :
      FieldIs(c) =>
        /\ Returned
        /\ \A t \in TimeSteps : StatAt(5, 0, t) = fabs(c)

\* a field of all -1 with the weights 0 and 1: the rms is 1
C14_Witness ==
  /\ WeightedDone /\ args.fn = "rms_da" /\ Returned
  /\ FieldIs(Num(0 - 1))
  /\ args.weights = OnGrid(DefaultDims, 0 - 1, 0, NoAttrs)
  /\ \E c \in HorizontalCells : args.weights.data[c] = Num(0)
  /\ RegionWeight(0) # Num(0)
  /\ \A t \in TimeSteps : StatAt(5, 0, t) = Num(1)

\* the weights are positive in every cell and not the same in every cell
PositiveNonUniform ==
  /\ \A c \in HorizontalCells : ~isnan(args.weights.data[c]) /\ args.weights.data[c][1] > 0
  /\ \E c, d \in HorizontalCells : args.weights.data[c] # args.weights.data[d]

\* the five statistics of the b-th row at time step t are min 5, max 5,
\* mean 5, std 0 and rms 5
FiveStatistics(b, t) ==
  /\ StatAt(1, b, t) = Num(5) /\ StatAt(2, b, t) = Num(5)
  /\ StatAt(3, b, t) = Num(5) /\ StatAt(4, b, t) = Num(0)
  /\ StatAt(5, b, t) = Num(5)

\* the call is myStats_da on a field of all 5 with positive non-uniform weights
FiveScenario ==
  /\ WeightedDone /\ args.fn = "myStats_da"
  /\ FieldIs(Num(5))
  /\ PositiveNonUniform

\* C15 as claimed: myStats_da on a field of all 5 with positive non-uniform
\* weights reports min 5, max 5, mean 5, std 0, rms 5 at every time step for
\* every region of the basins (for 'Global' without basins).
C15_FiveEveryRegion ==
  FiveScenario =>
    /\ Returned
    /\ \A b \in ResultRows, t \in TimeSteps : FiveStatistics(b, t)

\* C15, amended: myStats_da on a field of all 5 with positive non-uniform
\* weights reports min 5, max 5, mean 5, std 0, rms 5 at every time step for
\* every region of the basins that has at least one cell (for 'Global'
\* without basins); the rows are named after the regions.
C15_FiveEveryRegionWithCells ==
  FiveScenario =>
    /\ Returned
    /\ \A b \in ResultRows, t \in TimeSteps : RegionCells(b) # {} => FiveStatistics(b, t)
    /\ ret.value.basin = (IF TheBasins = None THEN <<"Global">> ELSE TheBasins.region)

\* two regions that share the cells of the grid: both report the five values
C15_Witness ==
  /\ FiveScenario /\ Returned
  /\ args.basins = RegionMasks(2, "partition")
  /\ ResultRows = {0, 1}
  /\ \A b \in ResultRows : RegionCells(b) # {}
  /\ \A b \in ResultRows, t \in TimeSteps : FiveStatistics(b, t)

\* the regions share no cell, and every cell with a weight other than zero
\* is in a region
Disjoint == \A b, c \in ResultRows : b # c => RegionCells(b) \cap RegionCells(c) = {}
Covering ==
  \A c \in HorizontalCells :
    (~isnan(args.weights.data[c]) /\ args.weights.data[c] # Num(0)) =>
      \E b \in ResultRows : InRegion(b, c)

\* the square of a statistic (a root that is irrational is <<n, d, 2>>)
Square(x) == IF Len(x) = 3 THEN <<x[1], x[2]>> ELSE fmul(x, x)

\* what myStats_da returns for the field and the weights of the call without basins
Global == myStats_da(args.da, args.weights, args.dims, None).ret.value

\* the weighted mean (n = 3) or the squared rms (n = 5) of the b-th row
\* at time step t, and the one of the global result
Moment(n, b, t) == IF n = 5 THEN Square(StatAt(n, b, t)) ELSE StatAt(n, b, t)
GlobalMoment(n, t) ==
  IF n = 5 THEN Square(Global.data[<<0, n - 1, t>>]) ELSE Global.data[<<0, n - 1, t>>]

\* the sum over the regions of total weight times moment equals the total
\* weight of the grid times the global moment
Reconciles(n, t) ==
  FSum([b \in ResultRows |-> fmul(RegionWeight(b), Moment(n, b, t))], ResultRows)
    = fmul(FSum(args.weights.data, {c \in HorizontalCells : ~isnan(args.weights.data[c])}),
           GlobalMoment(n, t))

\* the call is myStats_da with basins that are disjoint and cover the cells
\* that have weight
PartitionScenario ==
  /\ WeightedDone /\ args.fn = "myStats_da"
  /\ args.basins # None
  /\ Disjoint /\ Covering

\* C16 as claimed: for disjoint region masks that cover every cell with
\* nonzero weight, at every time step the sum over the regions of regional
\* total weight times regional weighted mean equals the global total weight
\* times the global weighted mean, and likewise for the squared rms.
C16_RegionsReconcile ==
  PartitionScenario =>
    /\ Returned
    /\ \A t \in TimeSteps, n \in {3, 5} : Reconciles(n, t)

\* C16, amended: the same, for region masks each of which has a total
\* weight other than zero.
C16_WeightedRegionsReconcile ==
  (PartitionScenario /\ \A b \in ResultRows : RegionWeight(b) # Num(0)) =>
    /\ Returned
    /\ \A t \in TimeSteps, n \in {3, 5} : Reconciles(n, t)

\* two regions that share the grid, positive non-uniform weights and a field
\* that differs from cell to cell: the weighted sums agree and are not zero
C16_Witness ==
  /\ PartitionScenario /\ Returned
  /\ args.basins = RegionMasks(2, "partition")
  /\ args.da = OnGrid(SurfaceDims, 0 - 1, 0 - 1, Units)
  /\ PositiveNonUniform
  /\ \A b \in ResultRows : RegionWeight(b) # Num(0)
  /\ \A t \in TimeSteps, n \in {3, 5} : Reconciles(n, t)
  /\ \E t \in TimeSteps : GlobalMoment(3, t) \notin {Num(0), NaN}
  /\ \E t \in TimeSteps : StatAt(3, 0, t) # StatAt(3, 1, t)

\* the element of the field and the weight of the cell c at time step t
FieldAt(t, c) == Field.data[<<t>> \o c]
WeightAt(c) == args.weights.data[c]

\* the least and the greatest of a set of floats, NaN if there is none
Least(S) == IF S = {} THEN NaN ELSE CHOOSE x \in S : \A y \in S : fle(x, y)
Greatest(S) == IF S = {} THEN NaN ELSE CHOOSE x \in S : \A y \in S : fle(y, x)

\* the sum of term[c] over the cells c of C where it is a number
SumOver(term, C) == FSum(term, {c \in C : ~isnan(term[c])})

\* the five statistics of the cells C at time step t, from their definitions
\* (the standard deviation from the mean, given)
RegionMin(C, t) == Least({FieldAt(t, c) : c \in C} \ {NaN})
RegionMax(C, t) == Greatest({FieldAt(t, c) : c \in C} \ {NaN})
RegionMean(C, t) ==
  fdiv(SumOver([c \in C |-> fmul(FieldAt(t, c), WeightAt(c))], C),
       SumOver([c \in C |-> WeightAt(c)], C))
RegionStd(C, t, mean) ==
  fsqrt(fdiv(SumOver([c \in C |->
                        fmul(fmul(fsub(FieldAt(t, c), mean), fsub(FieldAt(t, c), mean)),
                             WeightAt(c))], C),
             SumOver([c \in C |-> WeightAt(c)], C)))
RegionRms(C, t) ==
  fsqrt(fdiv(SumOver([c \in C |-> fmul(fmul(FieldAt(t, c), FieldAt(t, c)), WeightAt(c))], C),
             SumOver([c \in C |-> WeightAt(c)], C)))

\* the basins with the b-th row's region alone
Alone(b) ==
  [args.basins EXCEPT !.shape = <<1>> \o Tail(@),
                      !.data = [ix \in Indices(<<1>> \o Tail(args.basins.shape)) |->
                                  args.basins.data[<<b>> \o Tail(ix)]],
                      !.region = <<@[b + 1]>>]

\* the field with the value v in every cell outside the b-th row's region
Outside(b, v) ==
  [args.da EXCEPT !.data = [ix \in Indices(args.da.shape) |->
                              IF InRegion(b, Tail(ix)) THEN args.da.data[ix] ELSE Num(v)]]

\* what myStats_da reports for the b-th row's region when it is the only
\* region and the field holds v outside it
AloneOutside(b, v) == myStats_da(Outside(b, v), args.weights, args.dims, Alone(b)).ret

\* C17: for every region r and every time step, the five statistics that
\* myStats_da reports in the row named r are those of the cells whose mask
\* value for r is 1: min and max of their field values, mean, std and rms
\* weighted by their weights; so the row is what myStats_da reports for r
\* alone, whatever the field holds outside r.
C17_RegionFromItsCells ==
  (WeightedDone /\ args.fn = "myStats_da" /\ args.basins # None) =>
    /\ Returned
    /\ ret.value.basin = args.basins.region
    /\ \A b \in ResultRows :
         /\ \A t \in TimeSteps :
              /\ StatAt(1, b, t) = RegionMin(RegionCells(b), t)
              /\ StatAt(2, b, t) = RegionMax(RegionCells(b), t)
              /\ StatAt(3, b, t) = RegionMean(RegionCells(b), t)
              /\ StatAt(4, b, t) = RegionStd(RegionCells(b), t, StatAt(3, b, t))
              /\ StatAt(5, b, t) = RegionRms(RegionCells(b), t)
         /\ \A v \in {0 - 7, 7} :
              LET alone == AloneOutside(b, v)
              IN /\ DOMAIN alone = {"value"}
                 /\ alone.value.basin = <<args.basins.region[b + 1]>>
                 /\ alone.value.data =
                      [ix \in Indices(<<1, Len(stats), Field.shape[1]>>) |->
                         StatAt(ix[2] + 1, b, ix[3])]

\* two regions, the first with every cell and the second with some, a field
\* that differs from cell to cell and positive non-uniform weights: the rows
\* differ and each is that of its cells
C17_Witness ==
  /\ WeightedDone /\ args.fn = "myStats_da" /\ Returned
  /\ args.basins = RegionMasks(2, "overlap")
  /\ args.da = OnGrid(SurfaceDims, 0 - 1, 0 - 1, Units)
  /\ PositiveNonUniform
  /\ RegionCells(0) = HorizontalCells
  /\ RegionCells(1) # {} /\ RegionCells(1) # HorizontalCells
  /\ \A t \in TimeSteps :
       /\ StatAt(3, 0, t) = RegionMean(HorizontalCells, t)
       /\ StatAt(3, 1, t) = RegionMean(RegionCells(1), t)
       /\ StatAt(3, 0, t) # StatAt(3, 1, t)
       /\ StatAt(1, 0, t) # StatAt(2, 0, t)

(***************************************************************************)
(* The cells where the field is missing, in the weighted statistics.       *)
(***************************************************************************)
\* the cells of C where the field is not missing at time step t
Present(C, t) == {c \in C : ~isnan(FieldAt(t, c))}

\* the weight is masked (NaN) at every cell of C where the field is missing
MaskedWhereMissing(C, t) == \A c \in C \ Present(C, t) : isnan(WeightAt(c))

\* the field holds v at every cell of C where it is not missing
HoldsWherePresent(v, C, t) == \A c \in Present(C, t) : FieldAt(t, c) = v

\* a cell of C where the field is not missing has a positive weight
PresentHasWeight(C, t) ==
  \E c \in Present(C, t) : ~isnan(WeightAt(c)) /\ WeightAt(c)[1] > 0

\* the three weighted statistics of the b-th row at time step t are those of
\* the cells C, the standard deviation taken from the weighted mean of C
WeightedStatisticsOf(C, b, t) ==
  /\ Computes(3) => StatAt(3, b, t) = RegionMean(C, t)
  /\ Computes(4) => StatAt(4, b, t) = RegionStd(C, t, RegionMean(C, t))
  /\ Computes(5) => StatAt(5, b, t) = RegionRms(C, t)

\* C24 as stated: a cell whose field is missing counts neither in the
\* weighted sum nor in the total weight of the weighted mean, std and rms,
\* whatever its weight: they are the statistics of the cells where the field
\* is present; so for a field that holds c wherever it is present the
\* weighted mean is c when a cell where it is present has a positive weight.
C24_MissingCellsExcluded ==
  WeightedDone =>
    /\ Returned
    /\ \A b \in ResultRows, t \in TimeSteps :
         /\ WeightedStatisticsOf(Present(RegionCells(b), t), b, t)
         /\ (/\ Computes(3)
             /\ HoldsWherePresent(Num(5), RegionCells(b), t)
             /\ PresentHasWeight(RegionCells(b), t)) => StatAt(3, b, t) = Num(5)

\* C24, amended: a cell whose field is missing is left out of the weighted
\* sum but its weight, unless it is masked (NaN) too, still counts in the
\* total weight.  The weighted mean, std and rms are those of the cells where
\* the field is present when the weights are masked wherever the field is
\* missing; then, for a field that holds c wherever it is present, the
\* weighted mean is c when a cell where it is present has a positive weight.
C24_MissingCellsKeepTheirWeight ==
  WeightedDone =>
    /\ Returned
    /\ \A b \in ResultRows, t \in TimeSteps :
         /\ WeightedStatisticsOf(RegionCells(b), b, t)
         /\ MaskedWhereMissing(RegionCells(b), t) =>
              /\ WeightedStatisticsOf(Present(RegionCells(b), t), b, t)
              /\ (/\ Computes(3)
                  /\ HoldsWherePresent(Num(5), RegionCells(b), t)
                  /\ PresentHasWeight(RegionCells(b), t)) => StatAt(3, b, t) = Num(5)

\* mean_da of a field that is 5 but for a missing cell: with the weight 1 in
\* both cells the mean is 5/2, the missing cell's weight being counted
C24_Witness ==
  /\ WeightedDone /\ args.fn = "mean_da" /\ Returned
  /\ args.da = Land(Constant(SurfaceDims, 5, Units))
  /\ args.weights = OnGrid(DefaultDims, 1, 1, NoAttrs)
  /\ args.weights_sum = None
  /\ \A t \in TimeSteps :
       /\ Present(HorizontalCells, t) # HorizontalCells
       /\ ~MaskedWhereMissing(HorizontalCells, t)
       /\ PresentHasWeight(HorizontalCells, t)
       /\ StatAt(3, 0, t) = RegionMean(HorizontalCells, t)
       /\ StatAt(3, 0, t) = Frac(5, Cardinality(HorizontalCells))

(***************************************************************************)
(* The programs that acquire a worker pool: main of moc.py, and main of    *)
(* stats.py with its xystats and horizontal_mean_diff_rms.  A run is       *)
(* followed one action per step that touches the pool, the dataset, a      *)
(* reducer or an output file.  args holds what the run is given, pc is the *)
(* step the run is about to take (done: the run has ended, normally or     *)
(* with the exception in ret); loc holds fn (the function of stats.py the  *)
(* run is in), stage (the next of main's three calls), variables (the      *)
(* list xystats was given), parallel (what request_workers returned),      *)
(* pool (none: no pool was acquired; open; closed), varName and the loop   *)
(* counter i; log lists the pools requested and closed, the dataset reads, *)
(* the reducer invocations and the netCDF files written so far.            *)
(***************************************************************************)
\* len(ds.time) of moc.py's main is at most MaxYears
MaxYears == 2

\* the variables main of stats.py hands to xystats (-surface, -forcing)
SurfaceVariables == <<"SSH", "tos", "sos", "mlotst", "oml", "speed">>
ForcingVariables ==
  <<"friver", "ficeberg", "fsitherm", "hfsnthermds", "sfdsi", "hflso",
    "seaice_melt_heat", "wfo", "hfds", "Heat_PmE">>

\* the differences horizontal_mean_diff_rms reduces: temperature, salinity
Differences == <<"temp_diff", "salt_diff">>

\* a run of moc.py with any dataset, or of stats.py with any options
InitPrograms ==
  /\ \/ /\ pc = "request_workers"
        /\ \E variables \in SUBSET {"vmo", "vh"}, years \in 0..MaxYears :
             args = [program |-> "moc.main", variables |-> variables, years |-> years]
     \/ /\ pc = "options"
        /\ \E diff_rms \in BOOLEAN, surface \in BOOLEAN, forcing \in BOOLEAN :
             args = [program |-> "stats.main", diff_rms |-> diff_rms,
                     surface |-> surface, forcing |-> forcing]
  /\ loc = [fn |-> "main", stage |-> 1, variables |-> <<>>, parallel |-> FALSE,
            pool |-> "none", varName |-> "", i |-> 0]
  /\ ret = None
  /\ fig = <<>>
  /\ log = <<>>

\* moc.py main: parallel, cluster, client = m6toolbox.request_workers(nw)
main_request_workers ==
  /\ pc = "request_workers"
  /\ args.program = "moc.main"
  /\ \E parallel \in BOOLEAN :
       /\ loc' = [loc EXCEPT !.parallel = parallel,
                             !.pool = IF parallel THEN "open" ELSE "none"]
       /\ log' = Append(log, [op |-> "request_workers", arg |-> parallel])
  /\ pc' = "open_mfdataset"
  /\ UNCHANGED <<args, ret, fig>>

\* moc.py main: ds = xr.open_mfdataset(..., preprocess=preprocess)
main_open_mfdataset ==
  /\ pc = "open_mfdataset"
  /\ args.program = "moc.main"
  /\ log' = Append(log, [op |-> "open_mfdataset", arg |-> loc.parallel])
  /\ pc' = "compute"
  /\ UNCHANGED <<args, loc, ret, fig>>

\* moc.py main: ds_mean = ds_sel.mean('time').compute()
main_compute ==
  /\ pc = "compute"
  /\ args.program = "moc.main"
  /\ log' = Append(log, [op |-> "compute", arg |-> "ds_mean"])
  /\ pc' = "release"
  /\ UNCHANGED <<args, loc, ret, fig>>

\* main without its client.close(); cluster.close()
main_release_leavesOpen ==
  /\ pc = "release"
  /\ args.program = "moc.main"
  /\ pc' = "varName"
  /\ UNCHANGED <<args, loc, ret, fig, log>>

\* moc.py main: if parallel: client.close(); cluster.close()
main_release ==
  /\ pc = "release"
  /\ args.program = "moc.main"
  /\ loc' = [loc EXCEPT !.pool = IF loc.parallel THEN "closed" ELSE @]
  /\ log' = IF loc.parallel
              THEN log \o <<[op |-> "close", arg |-> "client"],
                            [op |-> "close", arg |-> "cluster"]>>
              ELSE log
  /\ pc' = "varName"
  /\ UNCHANGED <<args, ret, fig>>

\* moc.py main: varName is 'vmo', else 'vh', else the run raises
main_varName ==
  /\ pc = "varName"
  /\ args.program = "moc.main"
  /\ IF "vmo" \in args.variables
       THEN /\ loc' = [loc EXCEPT !.varName = "vmo"]
            /\ pc' = "MOCpsi global"
            /\ UNCHANGED ret
       ELSE IF "vh" \in args.variables
         THEN /\ loc' = [loc EXCEPT !.varName = "vh"]
              /\ pc' = "MOCpsi global"
              /\ UNCHANGED ret
         ELSE /\ ret' = Raise(Exc("Exception", "Could not find vh or vmo in file!"))
              /\ pc' = "done"
              /\ UNCHANGED loc
  /\ UNCHANGED <<args, fig, log>>

\* moc.py main: psiPlot = MOCpsi(VHmod)*conversion_factor
main_MOCpsi_global ==
  /\ pc = "MOCpsi global"
  /\ args.program = "moc.main"
  /\ log' = Append(log, [op |-> "MOCpsi", arg |-> "global"])
  /\ pc' = "MOCpsi Atlantic"
  /\ UNCHANGED <<args, loc, ret, fig>>

\* moc.py main: psiPlot = MOCpsi(VHmod, vmsk=...)*conversion_factor, then
\* for t in range(len(dtime)) begins
main_MOCpsi_Atlantic ==
  /\ pc = "MOCpsi Atlantic"
  /\ args.program = "moc.main"
  /\ log' = Append(log, [op |-> "MOCpsi", arg |-> "Atlantic"])
  /\ loc' = [loc EXCEPT !.i = 0]
  /\ pc' = IF args.years > 0 THEN "MOCpsi t" ELSE "to_netcdf"
  /\ UNCHANGED <<args, ret, fig>>

\* moc.py main: psi = MOCpsi(tmp, vmsk=...)*conversion_factor, for every t
main_MOCpsi_t ==
  /\ pc = "MOCpsi t"
  /\ args.program = "moc.main"
  /\ log' = Append(log, [op |-> "MOCpsi", arg |-> loc.i])
  /\ loc' = [loc EXCEPT !.i = @ + 1]
  /\ pc' = IF loc.i + 1 < args.years THEN "MOCpsi t" ELSE "to_netcdf"
  /\ UNCHANGED <<args, ret, fig>>

\* moc.py main: amoc_26_da.to_netcdf(...); amoc_45_da.to_netcdf(...); return
main_to_netcdf ==
  /\ pc = "to_netcdf"
  /\ args.program = "moc.main"
  /\ log' = log \o <<[op |-> "to_netcdf", arg |-> "MOC_26N_time_series"],
                     [op |-> "to_netcdf", arg |-> "MOC_45N_time_series"]>>
  /\ pc' = "done"
  /\ UNCHANGED <<args, loc, ret, fig>>

\* stats.py main: without -diff_rms, -surface and -forcing the run raises
stats_main_options ==
  /\ pc = "options"
  /\ args.program = "stats.main"
  /\ IF ~args.diff_rms /\ ~args.surface /\ ~args.forcing
       THEN /\ ret' = Raise(Exc("ValueError",
                                "Please select -diff_rms, -surface and/or -forcing."))
            /\ pc' = "done"
       ELSE /\ pc' = "main"
            /\ UNCHANGED ret
  /\ UNCHANGED <<args, loc, fig, log>>

\* stats.py main: if args.diff_rms: horizontal_mean_diff_rms(...); if
\* args.surface: xystats(...); if args.forcing: xystats(...); return
stats_main_calls ==
  /\ pc = "main"
  /\ args.program = "stats.main"
  /\ LET selected == <<args.diff_rms, args.surface, args.forcing>>
         callee == <<"horizontal_mean_diff_rms", "xystats", "xystats">>
         variables == <<<<>>, SurfaceVariables, ForcingVariables>>
     IN IF loc.stage > Len(selected)
          THEN /\ pc' = "done"
               /\ UNCHANGED loc
          ELSE IF selected[loc.stage]
            THEN /\ pc' = "request_workers"
                 /\ loc' = [loc EXCEPT !.fn = callee[loc.stage],
                                       !.variables = variables[loc.stage],
                                       !.stage = @ + 1]
            ELSE /\ pc' = "main"
                 /\ loc' = [loc EXCEPT !.stage = @ + 1]
  /\ UNCHANGED <<args, ret, fig, log>>

\* xystats: parallel, cluster, client = request_workers(args.number_of_workers)
xystats_request_workers ==
  /\ pc = "request_workers"
  /\ loc.fn = "xystats"
  /\ \E parallel \in BOOLEAN :
       /\ loc' = [loc EXCEPT !.parallel = parallel,
                             !.pool = IF parallel THEN "open" ELSE "none"]
       /\ log' = Append(log, [op |-> "request_workers", arg |-> parallel])
  /\ pc' = "open_mfdataset"
  /\ UNCHANGED <<args, ret, fig>>

\* xystats: ds = xr.open_mfdataset(...), then for var in variables begins
xystats_open_mfdataset ==
  /\ pc = "open_mfdataset"
  /\ loc.fn = "xystats"
  /\ log' = Append(log, [op |-> "open_mfdataset", arg |-> loc.parallel])
  /\ loc' = [loc EXCEPT !.i = 1]
  /\ pc' = IF Len(loc.variables) > 0 THEN "myStats_da" ELSE "release"
  /\ UNCHANGED <<args, ret, fig>>

\* xystats with a degraded mode: a variable whose myStats_da raises is
\* skipped and the loop goes on
xystats_myStats_da_skipsFailed ==
  /\ pc = "myStats_da"
  /\ loc.fn = "xystats"
  /\ \E raises \in BOOLEAN :
       IF raises
         THEN /\ log' = Append(log, [op |-> "myStats_da", arg |-> loc.variables[loc.i]])
              /\ loc' = [loc EXCEPT !.i = @ + 1]
              /\ pc' = IF loc.i < Len(loc.variables) THEN "myStats_da" ELSE "release"
         ELSE /\ log' = log \o <<[op |-> "myStats_da", arg |-> loc.variables[loc.i]],
                                 [op |-> "to_netcdf",
                                  arg |-> <<loc.variables[loc.i], "stats">>]>>
              /\ pc' = "mean"
              /\ UNCHANGED loc
  /\ UNCHANGED <<args, ret, fig>>

\* xystats: stats = myStats_da(ds_var, dims=ds_var.dims[1::], weights=area,
\* basins=basins), which returns or raises; stats.to_netcdf(..._stats.nc)
xystats_myStats_da ==
  /\ pc = "myStats_da"
  /\ loc.fn = "xystats"
  /\ \E raises \in BOOLEAN :
       IF raises
         THEN /\ log' = Append(log, [op |-> "myStats_da", arg |-> loc.variables[loc.i]])
              /\ ret' = Raise(Exc("Exception", "myStats_da"))
              /\ pc' = "done"
         ELSE /\ log' = log \o <<[op |-> "myStats_da", arg |-> loc.variables[loc.i]],
                                 [op |-> "to_netcdf",
                                  arg |-> <<loc.variables[loc.i], "stats">>]>>
              /\ pc' = "mean"
              /\ UNCHANGED ret
  /\ UNCHANGED <<args, loc, fig>>

\* xystats: ds_var_mean = ds_var.mean(dim='time'), which returns or raises;
\* ds_var_mean.to_netcdf(..._time_ave.nc); the next var
xystats_mean ==
  /\ pc = "mean"
  /\ loc.fn = "xystats"
  /\ \E raises \in BOOLEAN :
       IF raises
         THEN /\ log' = Append(log, [op |-> "mean", arg |-> loc.variables[loc.i]])
              /\ ret' = Raise(Exc("Exception", "mean"))
              /\ pc' = "done"
              /\ UNCHANGED loc
         ELSE /\ log' = log \o <<[op |-> "mean", arg |-> loc.variables[loc.i]],
                                 [op |-> "to_netcdf",
                                  arg |-> <<loc.variables[loc.i], "time_ave">>]>>
              /\ loc' = [loc EXCEPT !.i = @ + 1]
              /\ pc' = IF loc.i < Len(loc.variables) THEN "myStats_da" ELSE "release"
              /\ UNCHANGED ret
  /\ UNCHANGED <<args, fig>>

\* xystats: if parallel: client.close(); cluster.close(); return
xystats_release ==
  /\ pc = "release"
  /\ loc.fn = "xystats"
  /\ loc' = [loc EXCEPT !.pool = IF loc.parallel THEN "closed" ELSE @,
                        !.fn = "main"]
  /\ log' = IF loc.parallel
              THEN log \o <<[op |-> "close", arg |-> "client"],
                            [op |-> "close", arg |-> "cluster"]>>
              ELSE log
  /\ pc' = "main"
  /\ UNCHANGED <<args, ret, fig>>

\* horizontal_mean_diff_rms: parallel, cluster, client = request_workers(...)
horizontal_mean_diff_rms_request_workers ==
  /\ pc = "request_workers"
  /\ loc.fn = "horizontal_mean_diff_rms"
  /\ \E parallel \in BOOLEAN :
       /\ loc' = [loc EXCEPT !.parallel = parallel,
                             !.pool = IF parallel THEN "open" ELSE "none"]
       /\ log' = Append(log, [op |-> "request_workers", arg |-> parallel])
  /\ pc' = "open_mfdataset"
  /\ UNCHANGED <<args, ret, fig>>

\* horizontal_mean_diff_rms: ds = xr.open_mfdataset(..., parallel=parallel),
\* the climatologies, the observations and the differences
horizontal_mean_diff_rms_open_mfdataset ==
  /\ pc = "open_mfdataset"
  /\ loc.fn = "horizontal_mean_diff_rms"
  /\ log' = Append(log, [op |-> "open_mfdataset", arg |-> loc.parallel])
  /\ loc' = [loc EXCEPT !.i = 1]
  /\ pc' = "HorizontalMeanDiff_da"
  /\ UNCHANGED <<args, ret, fig>>

\* horizontal_mean_diff_rms: temp_bias, salt_bias = HorizontalMeanDiff_da(...),
\* each of which returns or raises
horizontal_mean_diff_rms_HorizontalMeanDiff_da ==
  /\ pc = "HorizontalMeanDiff_da"
  /\ loc.fn = "horizontal_mean_diff_rms"
  /\ log' = Append(log, [op |-> "HorizontalMeanDiff_da", arg |-> Differences[loc.i]])
  /\ \E raises \in BOOLEAN :
       IF raises
         THEN /\ ret' = Raise(Exc("Exception", "HorizontalMeanDiff_da"))
              /\ pc' = "done"
              /\ UNCHANGED loc
         ELSE /\ loc' = [loc EXCEPT !.i = IF loc.i < Len(Differences) THEN @ + 1 ELSE 1]
              /\ pc' = IF loc.i < Len(Differences) THEN "HorizontalMeanDiff_da"
                                                   ELSE "HorizontalMeanRmse_da"
              /\ UNCHANGED ret
  /\ UNCHANGED <<args, fig>>

\* horizontal_mean_diff_rms: temp_rms, salt_rms = HorizontalMeanRmse_da(...),
\* each of which returns or raises
horizontal_mean_diff_rms_HorizontalMeanRmse_da ==
  /\ pc = "HorizontalMeanRmse_da"
  /\ loc.fn = "horizontal_mean_diff_rms"
  /\ log' = Append(log, [op |-> "HorizontalMeanRmse_da", arg |-> Differences[loc.i]])
  /\ \E raises \in BOOLEAN :
       IF raises
         THEN /\ ret' = Raise(Exc("Exception", "HorizontalMeanRmse_da"))
              /\ pc' = "done"
              /\ UNCHANGED loc
         ELSE /\ loc' = [loc EXCEPT !.i = @ + 1]
              /\ pc' = IF loc.i < Len(Differences) THEN "HorizontalMeanRmse_da"
                                                   ELSE "release"
              /\ UNCHANGED ret
  /\ UNCHANGED <<args, fig>>

\* horizontal_mean_diff_rms: if parallel: client.close(); cluster.close()
horizontal_mean_diff_rms_release ==
  /\ pc = "release"
  /\ loc.fn = "horizontal_mean_diff_rms"
  /\ loc' = [loc EXCEPT !.pool = IF loc.parallel THEN "closed" ELSE @]
  /\ log' = IF loc.parallel
              THEN log \o <<[op |-> "close", arg |-> "client"],
                            [op |-> "close", arg |-> "cluster"]>>
              ELSE log
  /\ pc' = "to_netcdf"
  /\ UNCHANGED <<args, ret, fig>>

\* horizontal_mean_diff_rms: temp_bias.to_netcdf(...), salt_bias, temp_rms,
\* salt_rms likewise; the plots; return
horizontal_mean_diff_rms_to_netcdf ==
  /\ pc = "to_netcdf"
  /\ loc.fn = "horizontal_mean_diff_rms"
  /\ log' = log \o <<[op |-> "to_netcdf", arg |-> <<"temp", "bias">>],
                     [op |-> "to_netcdf", arg |-> <<"salt", "bias">>],
                     [op |-> "to_netcdf", arg |-> <<"temp", "rms">>],
                     [op |-> "to_netcdf", arg |-> <<"salt", "rms">>]>>
  /\ loc' = [loc EXCEPT !.fn = "main"]
  /\ pc' = "main"
  /\ UNCHANGED <<args, ret, fig>>

NextPrograms ==
  \/ main_request_workers
  \/ main_open_mfdataset
  \/ main_compute
  \/ main_release
  \/ main_varName
  \/ main_MOCpsi_global
  \/ main_MOCpsi_Atlantic
  \/ main_MOCpsi_t
  \/ main_to_netcdf
  \/ stats_main_options
  \/ stats_main_calls
  \/ xystats_request_workers
  \/ xystats_open_mfdataset
  \/ xystats_myStats_da
  \/ xystats_mean
  \/ xystats_release
  \/ horizontal_mean_diff_rms_request_workers
  \/ horizontal_mean_diff_rms_open_mfdataset
  \/ horizontal_mean_diff_rms_HorizontalMeanDiff_da
  \/ horizontal_mean_diff_rms_HorizontalMeanRmse_da
  \/ horizontal_mean_diff_rms_release
  \/ horizontal_mean_diff_rms_to_netcdf

SpecPrograms == InitPrograms /\ [][NextPrograms]_vars

\* the run is about to invoke MOCpsi, myStats_da, HorizontalMeanDiff_da or
\* HorizontalMeanRmse_da
Invoking ==
  pc \in {"MOCpsi global", "MOCpsi Atlantic", "MOCpsi t", "myStats_da",
          "HorizontalMeanDiff_da", "HorizontalMeanRmse_da"}

\* C20 as stated: whenever a run of one of the three programs invokes
\* MOCpsi, myStats_da, HorizontalMeanDiff_da or HorizontalMeanRmse_da, no
\* worker pool is open.
C20_NoPoolAtReducers == Invoking => loc.pool # "open"

\* C20, amended: main of moc.py invokes MOCpsi only when no pool is open (a
\* pool it acquired is closed by then); xystats and horizontal_mean_diff_rms
\* invoke their reducers with the pool they acquired still open, and with
\* no pool only when request_workers gave none.
C20_PoolAtReducers ==
  Invoking =>
    IF args.program = "moc.main"
      THEN loc.pool = IF loc.parallel THEN "closed" ELSE "none"
      ELSE loc.pool = IF loc.parallel THEN "open" ELSE "none"

\* main of moc.py, given a pool, reaches MOCpsi of a yearly transport after
\* it has read the dataset and closed the pool
C20_Witness ==
  /\ args.program = "moc.main"
  /\ pc = "MOCpsi t"
  /\ loc.parallel
  /\ loc.pool = "closed"
  /\ \E k \in 1..Len(log) : log[k].op = "open_mfdataset" /\ log[k].arg = TRUE
  /\ \E k \in 1..Len(log) : log[k].op = "MOCpsi" /\ log[k].arg = "global"

(***************************************************************************)
(* What a run of stats.py leaves behind when a reduction raises.           *)
(***************************************************************************)
\* the run of stats.py has ended with the exception of a reduction
ReductionRaised ==
  /\ args.program = "stats.main"
  /\ pc = "done"
  /\ DOMAIN ret = {"raised"}
  /\ ret.raised.type = "Exception"

\* the netCDF files the run has written
Written == {log[k].arg : k \in {j \in 1..Len(log) : log[j].op = "to_netcdf"}}

\* the files of horizontal_mean_diff_rms
BiasAndRmsFiles == {<<v, kind>> : v \in {"temp", "salt"}, kind \in {"bias", "rms"}}

\* the files xystats writes for the first n of these variables
FilesOf(variables, n) ==
  {<<variables[k], kind>> : k \in 1..n, kind \in {"stats", "time_ave"}}

\* the files of the calls main had completed, and of the variables xystats
\* had completed, before the reduction raised
WrittenBeforeFailure ==
  IF loc.fn = "xystats"
    THEN (IF args.diff_rms THEN BiasAndRmsFiles ELSE {})
         \cup (IF args.surface /\ loc.variables = ForcingVariables
                 THEN FilesOf(SurfaceVariables, Len(SurfaceVariables)) ELSE {})
         \cup FilesOf(loc.variables, loc.i - 1)
         \cup (IF ret.raised.msg = "mean"
                 THEN {<<loc.variables[loc.i], "stats">>} ELSE {})
    ELSE {}

\* C21 as stated: when a reduction raises the run of stats.py aborts at that
\* point without retry, and no statistics or time-average file has been
\* written by the run.
C21_AbortsWithoutOutput ==
  ReductionRaised =>
    /\ log[Len(log)].op = ret.raised.msg
    /\ \A k \in 1..(Len(log) - 1) : log[k] # log[Len(log)]
    /\ Written = {}

\* C21, amended: when a reduction raises the run of stats.py aborts at that
\* point without retry: the raising reduction is the last thing the run did
\* and it was tried once; the files written are those of the calls and of
\* the variables completed before it (with the statistics file of the
\* current variable when its time mean raised), and nothing of a later one.
C21_AbortsKeepingEarlierOutput ==
  ReductionRaised =>
    /\ log[Len(log)].op = ret.raised.msg
    /\ \A k \in 1..(Len(log) - 1) : log[k] # log[Len(log)]
    /\ Written = WrittenBeforeFailure

\* myStats_da raises on the third surface variable after
\* horizontal_mean_diff_rms and two variables have been written out
C21_Witness ==
  /\ ReductionRaised
  /\ args.diff_rms
  /\ loc.fn = "xystats"
  /\ loc.variables = SurfaceVariables
  /\ loc.i = 3
  /\ ret.raised.msg = "myStats_da"
  /\ log[Len(log)] = [op |-> "myStats_da", arg |-> "sos"]
  /\ <<"tos", "time_ave">> \in Written
  /\ <<"sos", "stats">> \notin Written

(***************************************************************************)
(* The life of the worker pools of a run.                                  *)
(***************************************************************************)
\* how many of the first n entries of the log are this one
Count(entry, n) == Cardinality({k \in 1..n : log[k] = entry})

\* the pools acquired and the pools released within the first n entries
PoolsAcquired(n) == Count([op |-> "request_workers", arg |-> TRUE], n)
ClientsClosed(n) == Count([op |-> "close", arg |-> "client"], n)
ClustersClosed(n) == Count([op |-> "close", arg |-> "cluster"], n)

\* the run has ended, normally or with an exception
RunEnded == args.program \in {"moc.main", "stats.main"} /\ pc = "done"

\* the run has ended with a pool it acquired still open
PoolLeftOpen == RunEnded /\ ClustersClosed(Len(log)) < PoolsAcquired(Len(log))

\* C25: every pool acquired through request_workers is released (client
\* closed, then cluster closed) exactly once before the run ends, normally
\* or by an error, and at most one pool is open at any time.
C25_EveryPoolReleasedOnce ==
  args.program \in {"moc.main", "stats.main"} =>
    /\ \A n \in 0..Len(log) :
         /\ PoolsAcquired(n) - ClustersClosed(n) \in {0, 1}
         /\ ClientsClosed(n) - ClustersClosed(n) \in {0, 1}
         /\ ClientsClosed(n) <= PoolsAcquired(n)
    /\ \A n \in 1..Len(log) :
         log[n] = [op |-> "close", arg |-> "cluster"] =>
           n > 1 /\ log[n - 1] = [op |-> "close", arg |-> "client"]
    /\ RunEnded =>
         /\ ClientsClosed(Len(log)) = PoolsAcquired(Len(log))
         /\ ClustersClosed(Len(log)) = PoolsAcquired(Len(log))

\* the part of C25 that the code keeps: a run that ends without an exception
\* has released every pool once, and no two pools are ever open together
C25_ReleasedOnceUnlessRaised ==
  args.program \in {"moc.main", "stats.main"} =>
    /\ \A n \in 0..Len(log) :
         /\ PoolsAcquired(n) - ClustersClosed(n) \in {0, 1}
         /\ ClientsClosed(n) - ClustersClosed(n) \in {0, 1}
         /\ ClientsClosed(n) <= PoolsAcquired(n)
    /\ \A n \in 1..Len(log) :
         log[n] = [op |-> "close", arg |-> "cluster"] =>
           n > 1 /\ log[n - 1] = [op |-> "close", arg |-> "client"]
    /\ (RunEnded /\ ret = None) =>
         /\ ClientsClosed(Len(log)) = PoolsAcquired(Len(log))
         /\ ClustersClosed(Len(log)) = PoolsAcquired(Len(log))
    /\ PoolLeftOpen =>
         /\ DOMAIN ret = {"raised"}
         /\ loc.fn \in {"xystats", "horizontal_mean_diff_rms"}

(***************************************************************************)
(* The index findExtrema locates, and the search window.                   *)
(***************************************************************************)
\* the cells that hold the extremum of the window
Holders == {ix \in Cells : args.psi.data[ix] = SignedExtremum}

\* a cell outside the window holds the extremum of the window and comes,
\* in row-major order, before every cell of the window that holds it
OutsideHolderFirst ==
  \E ox \in Holders \ WindowCells :
    \A ix \in Holders \cap WindowCells : RowMajorBefore(ox, ix)

\* C22: when the extremum of the window is also held by a cell outside the
\* window that comes earlier in row-major order than every cell of the
\* window holding it, the index (j,i) that findExtrema locates lies outside
\* the window: it fails min_lat <= y[j,i] <= max_lat or z[j,i] < -min_depth.
C22_LocatedOutsideWindow ==
  (FeDone /\ WindowCells # {} /\ OutsideHolderFirst) =>
    /\ <<loc.j, loc.i>> \in Cells \ WindowCells
    /\ ~(/\ args.min_lat <= args.y.data[<<loc.j, loc.i>>]
         /\ args.y.data[<<loc.j, loc.i>>] <= args.max_lat
         /\ args.z.data[<<loc.j, loc.i>>] < 0 - args.min_depth)
    /\ ~args.plot => ret = [value |-> SignedExtremum]
    /\ args.plot => fig[1].x = args.y.data[<<loc.j, loc.i>>]

\* a search of the band 26..27 N: the largest psi of the band, 1, is also
\* held by the cell (0,0) at 30 S, which is the cell located and marked
C22_Witness ==
  /\ FeDone
  /\ args.plot
  /\ args.mult = 1
  /\ args.min_lat = 26
  /\ args.psi.shape = <<2, 2>>
  /\ WindowCells = {<<0, 1>>, <<1, 1>>}
  /\ args.psi.data[<<0, 0>>] = 1
  /\ args.psi.data[<<0, 1>>] = 1
  /\ SignedExtremum = 1
  /\ loc.j = 0
  /\ loc.i = 0
  /\ args.y.data[<<0, 0>>] = 0 - 30
  /\ fig[1].x = 0 - 30

(***************************************************************************)
(* The inputs of the calls: MOCpsi, findExtrema and the statistics, each   *)
(* called on arrays its caller holds.                                      *)
(***************************************************************************)
\* the grids of one depth level
LevelGrids == {sh \in GridShapes : sh[1] = 1}

\* the inputs of the statistics, any transport of at most MaxCells cells with
\* any mask or none, and any grid of one depth level with any window
InitCalls ==
  \/ InitStats
  \/ /\ pc = "call"
     /\ \/ \E shape \in {s \in TransportShapes : Size(s) <= MaxCells} :
             \E vh \in Arrays(shape, Vals), vmsk \in Masks(shape) :
               args = [fn |-> "MOCpsi", vh |-> vh, vmsk |-> vmsk]
        \/ \E shape \in LevelGrids :
             \E psi \in Arrays(shape, PsiVals), y \in LatGrids(shape),
                z \in Arrays(shape, DepthVals), w \in Windows, mult \in {1, 0 - 1},
                plot \in BOOLEAN :
               args = [fn |-> "findExtrema", y |-> y, z |-> z, psi |-> psi,
                       min_lat |-> w.min_lat, max_lat |-> w.max_lat,
                       min_depth |-> w.min_depth, mult |-> mult, plot |-> plot]
     /\ loc = None
     /\ ret = None
     /\ fig = <<>>
     /\ log = <<>>

NextCalls == NextMOC \/ NextExtrema \/ NextStats

SpecCalls == InitCalls /\ [][NextCalls]_vars

====
